---- MODULE Spec2Model ----
(***************************************************************************)
(* A model of the zip reader (src/src/zip): the binary record codecs of    *)
(* format.rs, the entry descriptor of fileinfo.rs, and ZipReader with its  *)
(* iterators in reader.rs, over an in-memory seekable byte source.         *)
(*                                                                         *)
(* Bytes are naturals 0..255 and a stream is a sequence of bytes.  The     *)
(* model checker's integers are 32-bit signed, so a u32 that is only       *)
(* compared (a signature, a CRC-32) is kept in its 4-byte little-endian    *)
(* wire form, and a u32 that is computed with (a size, an offset) is       *)
(* decoded to an integer.                                                  *)
(***************************************************************************)
EXTENDS Integers, Sequences, FiniteSets, TLC

\* ------------------------------------------------------------------ bytes

\* a[lo..lo+n-1] of a 1-based sequence, by 0-based offset p: the n bytes at p
Take(s, p, n) == SubSeq(s, p + 1, p + n)

RECURSIVE Xor(_, _)
Xor(a, b) ==
    IF a = 0 THEN b
    ELSE IF b = 0 THEN a
    ELSE ((a + b) % 2) + 2 * Xor(a \div 2, b \div 2)

BitAnd(x, mask) == (x \div mask) % 2     \* mask a power of two: is that bit set

\* little-endian encodings, as write_le_u16 / write_le_u32 emit them
LE16(n) == << n % 256, (n \div 256) % 256 >>
LE32(n) == << n % 256, (n \div 256) % 256, (n \div 65536) % 256, (n \div 16777216) % 256 >>
\* little-endian decodings, as read_le_u16 / read_le_u32 return them
U16(b) == b[1] + 256 * b[2]
U32(b) == b[1] + 256 * b[2] + 65536 * b[3] + 16777216 * b[4]

\* --------------------------------------------------------------- crc32
\* crc32::crc32: the standard ZIP CRC-32 (reflected polynomial 0xEDB88320,
\* initial value and final xor 0xFFFFFFFF).  The register is the pair
\* <<hi, lo>> of its 16-bit halves; the result is in little-endian wire form.

CrcShift(c) ==
    LET hi == c[1]
        lo == c[2]
        sh == << hi \div 2, (lo \div 2) + (hi % 2) * 32768 >>
    IN  IF lo % 2 = 1 THEN << Xor(sh[1], 60856), Xor(sh[2], 33568) >> ELSE sh

RECURSIVE CrcBits(_, _)
CrcBits(c, k) == IF k = 0 THEN c ELSE CrcBits(CrcShift(c), k - 1)

\* the table of the byte-wise algorithm: entry n is n shifted through 8 bits
CrcTable == [n \in 0..255 |-> CrcBits(<< 0, n >>, 8)]

\* crc = table[(crc ^ b) & 0xFF] ^ (crc >> 8)
CrcByte(c, b) ==
    LET t == CrcTable[Xor(c[2] % 256, b)]
    IN  << Xor(t[1], c[1] \div 256), Xor(t[2], (c[2] \div 256) + (c[1] % 256) * 256) >>

RECURSIVE CrcBytes(_, _, _)
CrcBytes(c, s, i) ==
    IF i > Len(s) THEN c ELSE CrcBytes(CrcByte(c, s[i]), s, i + 1)

crc32(s) ==
    LET c  == CrcBytes(<< 65535, 65535 >>, s, 1)
        hi == Xor(c[1], 65535)
        lo == Xor(c[2], 65535)
    IN  << lo % 256, lo \div 256, hi % 256, hi \div 256 >>

\* ------------------------------------------------------------- inflate
\* flate::inflate_bytes, the external decompression service: raw DEFLATE
\* (RFC 1951) with stored blocks (BTYPE 00) and fixed-Huffman blocks
\* (BTYPE 01).  The result is [ok |-> TRUE, bytes |-> inflated] (Some) or
\* [ok |-> FALSE, bytes |-> <<>>] (None: malformed or truncated input).
\* Dynamic-Huffman blocks occur in no stream of this model and are refused.

InflateNone == [ok |-> FALSE, bytes |-> << >>]

Bit(s, i) == (s[(i \div 8) + 1] \div (2 ^ (i % 8))) % 2

RECURSIVE BitsLSB(_, _, _)
BitsLSB(s, i, n) == IF n = 0 THEN 0 ELSE Bit(s, i) + 2 * BitsLSB(s, i + 1, n - 1)

RECURSIVE BitsMSB(_, _, _)
BitsMSB(s, i, n) == IF n = 0 THEN 0 ELSE Bit(s, i) * (2 ^ (n - 1)) + BitsMSB(s, i + 1, n - 1)

\* one literal/length symbol of the fixed Huffman code, read at bit i
FixedSym(s, i) ==
    LET N    == 8 * Len(s)
        none == [ok |-> FALSE, sym |-> 0, next |-> i]
    IN  IF i + 7 > N THEN none
        ELSE LET c7 == BitsMSB(s, i, 7)
             IN  IF c7 <= 23 THEN [ok |-> TRUE, sym |-> 256 + c7, next |-> i + 7]
                 ELSE IF i + 8 > N THEN none
                 ELSE LET c8 == BitsMSB(s, i, 8)
                      IN  IF c8 <= 191 THEN [ok |-> TRUE, sym |-> c8 - 48, next |-> i + 8]
                          ELSE IF c8 <= 199
                               THEN [ok |-> TRUE, sym |-> 280 + (c8 - 192), next |-> i + 8]
                          ELSE IF i + 9 > N THEN none
                          ELSE [ok |-> TRUE, sym |-> 144 + (BitsMSB(s, i, 9) - 400),
                                next |-> i + 9]

LenExtra(c) == IF c < 8 \/ c = 28 THEN 0 ELSE (c \div 4) - 1
LenBase(c)  == IF c < 8 THEN 3 + c
               ELSE IF c = 28 THEN 258
               ELSE 3 + (4 + (c % 4)) * (2 ^ LenExtra(c))
DistExtra(d) == IF d < 4 THEN 0 ELSE (d \div 2) - 1
DistBase(d)  == IF d < 4 THEN d + 1 ELSE 1 + (2 + (d % 2)) * (2 ^ DistExtra(d))

\* the LZ77 copy: n bytes from dist back, byte by byte (the source may overlap)
RECURSIVE CopyBack(_, _, _)
CopyBack(out, dist, n) ==
    IF n = 0 THEN out
    ELSE CopyBack(Append(out, out[Len(out) - dist + 1]), dist, n - 1)

\* the symbols of one fixed-Huffman block from bit i, up to its end-of-block;
\* FixedStep acts on the symbol r read at bit i
RECURSIVE InflateFixed(_, _, _)
FixedStep(s, i, out, r) ==
    LET N    == 8 * Len(s)
        none == [ok |-> FALSE, bytes |-> << >>, next |-> i]
    IN  IF ~r.ok THEN none
        ELSE IF r.sym < 256 THEN InflateFixed(s, r.next, Append(out, r.sym))
        ELSE IF r.sym = 256 THEN [ok |-> TRUE, bytes |-> out, next |-> r.next]
        ELSE IF r.sym > 285 THEN none
        ELSE LET c  == r.sym - 257
                 le == LenExtra(c)
                 j  == r.next + le
             IN  IF j + 5 > N THEN none
                 ELSE LET n  == LenBase(c) + BitsLSB(s, r.next, le)
                          d  == BitsMSB(s, j, 5)
                          de == DistExtra(d)
                      IN  IF d > 29 \/ j + 5 + de > N THEN none
                          ELSE LET dist == DistBase(d) + BitsLSB(s, j + 5, de)
                               IN  IF dist > Len(out) THEN none
                                   ELSE InflateFixed(s, j + 5 + de, CopyBack(out, dist, n))

InflateFixed(s, i, out) == FixedStep(s, i, out, FixedSym(s, i))

\* one stored block whose 3 header bits end at bit i
InflateStored(s, i, out) ==
    LET p    == (i + 7) \div 8
        none == [ok |-> FALSE, bytes |-> << >>, next |-> i]
    IN  IF p + 4 > Len(s) THEN none
        ELSE LET n  == U16(Take(s, p, 2))
                 nn == U16(Take(s, p + 2, 2))
             IN  IF n + nn # 65535 \/ p + 4 + n > Len(s) THEN none
                 ELSE [ok |-> TRUE, bytes |-> out \o Take(s, p + 4, n),
                       next |-> 8 * (p + 4 + n)]

\* the blocks from bit i on; BlockEnd acts on the result r of one block
RECURSIVE InflateBlocks(_, _, _)
BlockEnd(s, bfinal, r) ==
    IF ~r.ok THEN InflateNone
    ELSE IF bfinal = 1 THEN [ok |-> TRUE, bytes |-> r.bytes]
    ELSE InflateBlocks(s, r.next, r.bytes)

InflateBlocks(s, i, out) ==
    IF i + 3 > 8 * Len(s) THEN InflateNone
    ELSE LET btype == BitsLSB(s, i + 1, 2)
         IN  BlockEnd(s, Bit(s, i),
                      IF btype = 0 THEN InflateStored(s, i + 3, out)
                      ELSE IF btype = 1 THEN InflateFixed(s, i + 3, out)
                      ELSE [ok |-> FALSE, bytes |-> << >>, next |-> i])

inflate_bytes(data) == InflateBlocks(data, 0, << >>)

\* ------------------------------------------------------------ maybe_utf8
\* MaybeUTF8 is [utf8 |-> TRUE, bytes |-> b] for UTF8(String) and
\* [utf8 |-> FALSE, bytes |-> b] for Bytes(Vec<u8>).

IsCont(s, i) == i <= Len(s) /\ s[i] >= 128 /\ s[i] <= 191

\* String::from_utf8 / str::from_utf8 accept exactly the well-formed UTF-8
RECURSIVE IsUtf8From(_, _)
IsUtf8From(s, i) ==
    IF i > Len(s) THEN TRUE
    ELSE LET b == s[i]
         IN  IF b < 128 THEN IsUtf8From(s, i + 1)
             ELSE IF b >= 194 /\ b <= 223
                  THEN IsCont(s, i + 1) /\ IsUtf8From(s, i + 2)
             ELSE IF b >= 224 /\ b <= 239
                  THEN /\ IsCont(s, i + 1)
                       /\ (b = 224 => s[i + 1] >= 160)
                       /\ (b = 237 => s[i + 1] <= 159)
                       /\ IsCont(s, i + 2)
                       /\ IsUtf8From(s, i + 3)
             ELSE IF b >= 240 /\ b <= 244
                  THEN /\ IsCont(s, i + 1)
                       /\ (b = 240 => s[i + 1] >= 144)
                       /\ (b = 244 => s[i + 1] <= 143)
                       /\ IsCont(s, i + 2)
                       /\ IsCont(s, i + 3)
                       /\ IsUtf8From(s, i + 4)
             ELSE FALSE

IsUtf8(s) == IsUtf8From(s, 1)

MaybeUTF8_new == [utf8 |-> TRUE, bytes |-> << >>]
from_str(b)   == [utf8 |-> TRUE, bytes |-> b]
from_bytes(b) == [utf8 |-> FALSE, bytes |-> b]
as_bytes(m)   == m.bytes
\* as_str: Some exactly when the value is text or its bytes decode as UTF-8
as_str_is_some(m) == m.utf8 \/ IsUtf8(m.bytes)
\* PartialEq for MaybeUTF8 against MaybeUTF8, &str and &[u8]: by bytes only
MaybeEq(m, b) == as_bytes(m) = b

\* ----------------------------------------------------------------- error
\* ZipError: the kind, and for InvalidSignature the observed u32 (wire form)
ZipError(k) == [kind |-> k, magic |-> << >>]
\* the error without the value observed
InvalidSignature_blank(m) == ZipError("InvalidSignature")
InvalidSignature(m) == [kind |-> "InvalidSignature", magic |-> m]
NoError == ZipError("None")

\* ---------------------------------------------------------------- stream
\* old_io Reader + Seek over an in-memory buffer: a seek to any offset >= 0
\* succeeds, a read of n bytes succeeds when n bytes remain and otherwise
\* fails with an I/O error (end of file) after consuming what remains.
Avail(s, p, n) == p + n <= Len(s)
ShortPos(s, p) == IF p > Len(s) THEN p ELSE Len(s)

\* ---------------------------------------------------------------- format
LFH_SIGNATURE   == << 80, 75, 3, 4 >>     \* 0x04034b50, little-endian
CDH_SIGNATURE   == << 80, 75, 1, 2 >>     \* 0x02014b50
EOCDR_SIGNATURE == << 80, 75, 5, 6 >>     \* 0x06054b50

\* a decoding that looks at the bytes, not at the flag
read_maybe_utf8_sniffed(v, should_be_utf8) ==
    [ok |-> TRUE, val |-> IF IsUtf8(v) THEN from_str(v) ELSE from_bytes(v),
     err |-> NoError]

\* read_maybe_utf8 on the len bytes at p (the caller has checked they exist)
read_maybe_utf8(v, should_be_utf8) ==
    IF should_be_utf8
    THEN IF IsUtf8(v) THEN [ok |-> TRUE, val |-> from_str(v), err |-> NoError]
         ELSE [ok |-> FALSE, val |-> MaybeUTF8_new, err |-> ZipError("NonUTF8Field")]
    ELSE [ok |-> TRUE, val |-> from_bytes(v), err |-> NoError]

\* a write that wants text whatever should_be_utf8 says
write_maybe_utf8_strict(should_be_utf8, m) ==
    IF ~as_str_is_some(m)
    THEN [ok |-> FALSE, out |-> << >>, err |-> ZipError("NonUTF8Field")]
    ELSE [ok |-> TRUE, out |-> as_bytes(m), err |-> NoError]

\* write_maybe_utf8: the bytes written, or NonUTF8Field with nothing written
write_maybe_utf8(should_be_utf8, m) ==
    IF should_be_utf8 /\ ~as_str_is_some(m)
    THEN [ok |-> FALSE, out |-> << >>, err |-> ZipError("NonUTF8Field")]
    ELSE [ok |-> TRUE, out |-> as_bytes(m), err |-> NoError]

\* ensure_u16_field_length: len.to_u16()
ensure_u16_field_length(len) == len <= 65535

\* MsdosDateTime is [time |-> u16, date |-> u16]
MsdosDateTime_new(year, month, day, hour, minute, second) ==
    [time |-> (((hour % 32) * 2048) + ((minute % 64) * 32) + ((second % 64) \div 2)) % 65536,
     date |-> ((((year - 1980) % 128) * 512) + ((month % 16) * 32) + (day % 32)) % 65536]
MsdosDateTime_zero == [time |-> 0, date |-> 0]
year(d)   == ((d.date \div 512) % 128) + 1980
month(d)  == (d.date \div 32) % 16
day(d)    == d.date % 32
hour(d)   == (d.time \div 2048) % 32
minute(d) == (d.time \div 32) % 64
\* the seconds field taken without its shift
second_unshifted(d) == d.time % 32
second(d) == ((d.time * 2) % 65536) % 64
to_tuple(d) == << year(d), month(d), day(d), hour(d), minute(d), second(d) >>
MsdosDateTime_read(b) == [time |-> U16(Take(b, 0, 2)), date |-> U16(Take(b, 2, 2))]
\* the two halves of the timestamp written in the other order
MsdosDateTime_write_swapped(d) == LE16(d.date) \o LE16(d.time)
MsdosDateTime_write(d) == LE16(d.time) \o LE16(d.date)

\* a masking check that never finds the flag
uses_masking_never(h) == FALSE

\* the flag getters of LocalFileHeader and CentralDirectoryHeader
is_encrypted(h)               == BitAnd(h.general_purpose_bit_flag, 1) # 0
has_data_descriptor(h)        == BitAnd(h.general_purpose_bit_flag, 8) # 0
is_compressed_patched_data(h) == BitAnd(h.general_purpose_bit_flag, 32) # 0
uses_strong_encryption(h)     == BitAnd(h.general_purpose_bit_flag, 64) # 0
has_utf8_name(h)              == BitAnd(h.general_purpose_bit_flag, 2048) # 0
uses_masking(h)               == BitAnd(h.general_purpose_bit_flag, 8192) # 0

\* ==== LOCAL FILE HEADER ====
LocalFileHeader_new ==
    [version_needed_to_extract |-> 0, general_purpose_bit_flag |-> 0,
     compression_method |-> 0, last_modified_datetime |-> MsdosDateTime_zero,
     crc32 |-> << 0, 0, 0, 0 >>, compressed_size |-> 0, uncompressed_size |-> 0,
     file_name |-> MaybeUTF8_new, extra_field |-> << >>]

LFH_total_size(h) == 30 + Len(h.file_name.bytes) + Len(h.extra_field)

\* The result of a record read: kind "Ok" with the record h, "Err" with the
\* ZipError err, or "Panic" (a failed assert!); pos is the stream position after.
RdErr(e, q) == [kind |-> "Err", err |-> e, h |-> LocalFileHeader_new, pos |-> q]

\* LocalFileHeader::read from position p of stream s
LocalFileHeader_read(s, p) ==
    IF ~Avail(s, p, 4) THEN RdErr(ZipError("IoError"), ShortPos(s, p))
    ELSE IF Take(s, p, 4) # LFH_SIGNATURE THEN RdErr(InvalidSignature(Take(s, p, 4)), p + 4)
    ELSE IF ~Avail(s, p, 30) THEN RdErr(ZipError("IoError"), ShortPos(s, p))
    ELSE LET flag == U16(Take(s, p + 6, 2))
             file_name_length == U16(Take(s, p + 26, 2))
             extra_field_length == U16(Take(s, p + 28, 2))
             utf8 == BitAnd(flag, 2048) # 0
         IN  IF ~Avail(s, p + 30, file_name_length)
             THEN RdErr(ZipError("IoError"), ShortPos(s, p))
             ELSE LET name == read_maybe_utf8(Take(s, p + 30, file_name_length), utf8)
                      q == p + 30 + file_name_length
                  IN  IF ~name.ok THEN RdErr(name.err, q)
                      ELSE IF ~Avail(s, q, extra_field_length)
                           THEN RdErr(ZipError("IoError"), ShortPos(s, p))
                      ELSE LET h == [version_needed_to_extract |-> U16(Take(s, p + 4, 2)),
                                     general_purpose_bit_flag |-> flag,
                                     compression_method |-> U16(Take(s, p + 8, 2)),
                                     last_modified_datetime |->
                                         MsdosDateTime_read(Take(s, p + 10, 4)),
                                     crc32 |-> Take(s, p + 14, 4),
                                     compressed_size |-> U32(Take(s, p + 18, 4)),
                                     uncompressed_size |-> U32(Take(s, p + 22, 4)),
                                     file_name |-> name.val,
                                     extra_field |-> Take(s, q, extra_field_length)]
                               unsupported ==
                                   \/ is_encrypted(h)
                                   \/ is_compressed_patched_data(h)
                                   \/ has_data_descriptor(h)
                                   \/ uses_strong_encryption(h)
                                   \/ uses_masking(h)
                           IN  [kind |-> IF unsupported THEN "Panic" ELSE "Ok",
                                err |-> NoError, h |-> h,
                                pos |-> q + extra_field_length]

\* The result of a record write: the bytes that reached the writer, and
\* whether the write succeeded; on failure what was written before stays.
WrOk(b)     == [ok |-> TRUE, err |-> NoError, out |-> b]
WrErr(e, b) == [ok |-> FALSE, err |-> e, out |-> b]

\* LocalFileHeader::write
LocalFileHeader_write(h) ==
    LET fixed == LFH_SIGNATURE \o LE16(h.version_needed_to_extract)
                 \o LE16(h.general_purpose_bit_flag) \o LE16(h.compression_method)
                 \o MsdosDateTime_write(h.last_modified_datetime) \o h.crc32
                 \o LE32(h.compressed_size) \o LE32(h.uncompressed_size)
        nlen == Len(h.file_name.bytes)
        elen == Len(h.extra_field)
        name == write_maybe_utf8(has_utf8_name(h), h.file_name)
    IN  IF ~ensure_u16_field_length(nlen) THEN WrErr(ZipError("TooLongField"), fixed)
        ELSE IF ~ensure_u16_field_length(elen)
             THEN WrErr(ZipError("TooLongField"), fixed \o LE16(nlen))
        ELSE IF ~name.ok THEN WrErr(name.err, fixed \o LE16(nlen) \o LE16(elen))
        ELSE WrOk(fixed \o LE16(nlen) \o LE16(elen) \o name.out \o h.extra_field)

\* ==== CENTRAL DIRECTORY HEADER ====
CentralDirectoryHeader_new ==
    [version_made_by |-> 0, version_needed_to_extract |-> 0,
     general_purpose_bit_flag |-> 0, compression_method |-> 0,
     last_modified_datetime |-> MsdosDateTime_zero, crc32 |-> << 0, 0, 0, 0 >>,
     compressed_size |-> 0, uncompressed_size |-> 0, disk_number_start |-> 0,
     internal_file_attributes |-> 0, external_file_attributes |-> << 0, 0, 0, 0 >>,
     relative_offset_of_local_header |-> 0, file_name |-> MaybeUTF8_new,
     extra_field |-> << >>, file_comment |-> MaybeUTF8_new]

\* a total size that leaves the comment out
CDH_total_size_no_comment(h) == 46 + Len(h.file_name.bytes) + Len(h.extra_field)

CDH_total_size(h) ==
    46 + Len(h.file_name.bytes) + Len(h.extra_field) + Len(h.file_comment.bytes)

CdErr(e, q) == [kind |-> "Err", err |-> e, h |-> CentralDirectoryHeader_new, pos |-> q]

\* CentralDirectoryHeader::read from position p of stream s
CentralDirectoryHeader_read(s, p) ==
    IF ~Avail(s, p, 4) THEN CdErr(ZipError("IoError"), ShortPos(s, p))
    ELSE IF Take(s, p, 4) # CDH_SIGNATURE THEN CdErr(InvalidSignature(Take(s, p, 4)), p + 4)
    ELSE IF ~Avail(s, p, 46) THEN CdErr(ZipError("IoError"), ShortPos(s, p))
    ELSE LET flag == U16(Take(s, p + 8, 2))
             file_name_length == U16(Take(s, p + 28, 2))
             extra_field_length == U16(Take(s, p + 30, 2))
             file_comment_length == U16(Take(s, p + 32, 2))
             utf8 == BitAnd(flag, 2048) # 0
             q1 == p + 46 + file_name_length
             q2 == q1 + extra_field_length
         IN  IF ~Avail(s, p + 46, file_name_length)
             THEN CdErr(ZipError("IoError"), ShortPos(s, p))
             ELSE LET name == read_maybe_utf8(Take(s, p + 46, file_name_length), utf8)
                  IN  IF ~name.ok THEN CdErr(name.err, q1)
                      ELSE IF ~Avail(s, q1, extra_field_length + file_comment_length)
                           THEN CdErr(ZipError("IoError"), ShortPos(s, p))
                      ELSE LET comment ==
                                   read_maybe_utf8(Take(s, q2, file_comment_length), utf8)
                           IN  IF ~comment.ok THEN CdErr(comment.err, q2 + file_comment_length)
                               ELSE [kind |-> "Ok", err |-> NoError,
                                     h |-> [version_made_by |-> U16(Take(s, p + 4, 2)),
                                            version_needed_to_extract |->
                                                U16(Take(s, p + 6, 2)),
                                            general_purpose_bit_flag |-> flag,
                                            compression_method |-> U16(Take(s, p + 10, 2)),
                                            last_modified_datetime |->
                                                MsdosDateTime_read(Take(s, p + 12, 4)),
                                            crc32 |-> Take(s, p + 16, 4),
                                            compressed_size |-> U32(Take(s, p + 20, 4)),
                                            uncompressed_size |-> U32(Take(s, p + 24, 4)),
                                            disk_number_start |-> U16(Take(s, p + 34, 2)),
                                            internal_file_attributes |->
                                                U16(Take(s, p + 36, 2)),
                                            external_file_attributes |-> Take(s, p + 38, 4),
                                            relative_offset_of_local_header |->
                                                U32(Take(s, p + 42, 4)),
                                            file_name |-> name.val,
                                            extra_field |-> Take(s, q1, extra_field_length),
                                            file_comment |-> comment.val],
                                     pos |-> q2 + file_comment_length]

\* CentralDirectoryHeader::write
CentralDirectoryHeader_write(h) ==
    LET fixed == CDH_SIGNATURE \o LE16(h.version_made_by)
                 \o LE16(h.version_needed_to_extract)
                 \o LE16(h.general_purpose_bit_flag) \o LE16(h.compression_method)
                 \o MsdosDateTime_write(h.last_modified_datetime) \o h.crc32
                 \o LE32(h.compressed_size) \o LE32(h.uncompressed_size)
        nlen == Len(h.file_name.bytes)
        elen == Len(h.extra_field)
        clen == Len(h.file_comment.bytes)
        rest == LE16(h.disk_number_start) \o LE16(h.internal_file_attributes)
                \o h.external_file_attributes \o LE32(h.relative_offset_of_local_header)
        name == write_maybe_utf8(has_utf8_name(h), h.file_name)
        comment == write_maybe_utf8(has_utf8_name(h), h.file_comment)
        lens == LE16(nlen) \o LE16(elen) \o LE16(clen)
    IN  IF ~ensure_u16_field_length(nlen) THEN WrErr(ZipError("TooLongField"), fixed)
        ELSE IF ~ensure_u16_field_length(elen)
             THEN WrErr(ZipError("TooLongField"), fixed \o LE16(nlen))
        ELSE IF ~ensure_u16_field_length(clen)
             THEN WrErr(ZipError("TooLongField"), fixed \o LE16(nlen) \o LE16(elen))
        ELSE IF ~name.ok THEN WrErr(name.err, fixed \o lens \o rest)
        ELSE IF ~comment.ok
             THEN WrErr(comment.err, fixed \o lens \o rest \o name.out \o h.extra_field)
        ELSE WrOk(fixed \o lens \o rest \o name.out \o h.extra_field \o comment.out)

\* ==== END OF CENTRAL DIRECTORY RECORD ====
EndOfCentralDirectoryRecord_new ==
    [disk_number |-> 0, disk_number_with_start_of_central_directory |-> 0,
     entry_count_this_disk |-> 0, total_entry_count |-> 0,
     central_directory_size |-> 0, central_directory_offset |-> 0, comment |-> << >>]

EoErr(e, q) ==
    [kind |-> "Err", err |-> e, h |-> EndOfCentralDirectoryRecord_new, pos |-> q]

\* EndOfCentralDirectoryRecord::read from position p of stream s
EndOfCentralDirectoryRecord_read(s, p) ==
    IF ~Avail(s, p, 4) THEN EoErr(ZipError("IoError"), ShortPos(s, p))
    ELSE IF Take(s, p, 4) # EOCDR_SIGNATURE
         THEN EoErr(InvalidSignature(Take(s, p, 4)), p + 4)
    ELSE IF ~Avail(s, p, 22) THEN EoErr(ZipError("IoError"), ShortPos(s, p))
    ELSE LET comment_length == U16(Take(s, p + 20, 2))
         IN  IF ~Avail(s, p + 22, comment_length)
             THEN EoErr(ZipError("IoError"), ShortPos(s, p))
             ELSE [kind |-> "Ok", err |-> NoError,
                   h |-> [disk_number |-> U16(Take(s, p + 4, 2)),
                          disk_number_with_start_of_central_directory |->
                              U16(Take(s, p + 6, 2)),
                          entry_count_this_disk |-> U16(Take(s, p + 8, 2)),
                          total_entry_count |-> U16(Take(s, p + 10, 2)),
                          central_directory_size |-> U32(Take(s, p + 12, 4)),
                          central_directory_offset |-> U32(Take(s, p + 16, 4)),
                          comment |-> Take(s, p + 22, comment_length)],
                   pos |-> p + 22 + comment_length]

\* EndOfCentralDirectoryRecord::write
EndOfCentralDirectoryRecord_write(h) ==
    LET fixed == EOCDR_SIGNATURE \o LE16(h.disk_number)
                 \o LE16(h.disk_number_with_start_of_central_directory)
                 \o LE16(h.entry_count_this_disk) \o LE16(h.total_entry_count)
                 \o LE32(h.central_directory_size) \o LE32(h.central_directory_offset)
    IN  IF ~ensure_u16_field_length(Len(h.comment))
        THEN WrErr(ZipError("TooLongField"), fixed)
        ELSE WrOk(fixed \o LE16(Len(h.comment)) \o h.comment)

\* -------------------------------------------------------------- fileinfo
\* a mapping that takes every code but 8 for Store
from_u16_lenient(x) == IF x = 8 THEN "Deflate" ELSE "Store"

\* CompressionMethod::from_u16
from_u16(x) == IF x = 0 THEN "Store" ELSE IF x = 8 THEN "Deflate" ELSE "Unknown"

\* FileInfo::from_cdh: the descriptor of a central directory header; the
\* conversion panics (kind "Panic") on a method code other than 0 and 8
from_cdh(h) ==
    [kind |-> IF h.compression_method = 0 \/ h.compression_method = 8
              THEN "Ok" ELSE "Panic",
     info |-> [name |-> h.file_name,
               compression_method |->
                   IF h.compression_method = 0 THEN "Store" ELSE "Deflate",
               last_modified_datetime |-> to_tuple(h.last_modified_datetime),
               crc32 |-> h.crc32,
               compressed_size |-> h.compressed_size,
               uncompressed_size |-> h.uncompressed_size,
               is_encrypted |-> is_encrypted(h),
               local_file_header_offset |-> h.relative_offset_of_local_header]]

NoInfo == from_cdh(CentralDirectoryHeader_new).info

\* ---------------------------------------------------------------- reader
\* Seek::seek(offset, SeekSet) from position cur: the new position
SeekSet(cur, offset) == offset

\* The result of an extraction: kind "Ok" with the bytes, "Err" with the
\* ZipError, or "Panic"; pos is the stream position it leaves.
ExOk(b, q)  == [kind |-> "Ok", err |-> NoError, bytes |-> b, pos |-> q]
ExErr(e, q) == [kind |-> "Err", err |-> e, bytes |-> << >>, pos |-> q]
ExPanic(q)  == [kind |-> "Panic", err |-> NoError, bytes |-> << >>, pos |-> q]

\* a header read that does not seek: from wherever the stream is
read_header_here(s, cur, f) == LocalFileHeader_read(s, cur)

\* ZipReader::read_header
read_header(s, cur, f) == LocalFileHeader_read(s, SeekSet(cur, f.local_file_header_offset))

\* ZipReader::decompress: the match on the result r of inflate_bytes; q is
\* the stream position, which it leaves alone
decompress_match(r, len, crc, q) ==
    IF ~r.ok THEN ExErr(ZipError("DecompressionFailure"), q)
    ELSE IF crc = << 0, 0, 0, 0 >> \/ crc32(r.bytes) = crc
         THEN IF len > Len(r.bytes) THEN ExPanic(q)      \* ok[0..len] out of range
              ELSE ExOk(Take(r.bytes, 0, len), q)
    ELSE ExErr(ZipError("CrcError"), q)

decompress(compressed, len, crc, q) ==
    decompress_match(inflate_bytes(compressed), len, crc, q)

\* ZipReader::extract_block
extract_block(s, cur, pos, len, method, crc) ==
    LET p == SeekSet(cur, pos)
    IN  IF ~Avail(s, p, len) THEN ExErr(ZipError("IoError"), ShortPos(s, p))
        ELSE LET compressed == Take(s, p, len)
                 m == from_u16(method)
             IN  IF m = "Store" THEN ExOk(compressed, p + len)
                 ELSE IF m = "Deflate" THEN decompress(compressed, len, crc, p + len)
                 ELSE ExPanic(p + len)

\* a read that takes the size, the method and the CRC from the FileInfo
read_block_by_info(s, f, header) ==
    IF header.kind = "Err" THEN ExErr(header.err, header.pos)
    ELSE IF header.kind = "Panic" THEN ExPanic(header.pos)
    ELSE extract_block(s, header.pos,
                       f.local_file_header_offset + LFH_total_size(header.h),
                       f.compressed_size,
                       IF f.compression_method = "Store" THEN 0 ELSE 8, f.crc32)

\* ZipReader::read: try!(self.read_header(f)) and then the extract_block
read_block(s, f, header) ==
    IF header.kind = "Err" THEN ExErr(header.err, header.pos)
    ELSE IF header.kind = "Panic" THEN ExPanic(header.pos)
    ELSE extract_block(s, header.pos,
                       f.local_file_header_offset + LFH_total_size(header.h),
                       header.h.compressed_size, header.h.compression_method,
                       header.h.crc32)

read(s, cur, f) == read_block(s, f, read_header(s, cur, f))

\* ZipReader::read_first: try!(self.read_header(f)) and then the extract_block
read_first_block(s, f, length, header) ==
    IF header.kind = "Err" THEN ExErr(header.err, header.pos)
    ELSE IF header.kind = "Panic" THEN ExPanic(header.pos)
    ELSE LET file_len == header.h.compressed_size
             len == IF length > file_len THEN file_len ELSE length
         IN  extract_block(s, header.pos,
                           f.local_file_header_offset + LFH_total_size(header.h),
                           len, header.h.compression_method, << 0, 0, 0, 0 >>)

read_first(s, cur, f, length) == read_first_block(s, f, length, read_header(s, cur, f))

\* (a match that moves the cursor past a header that failed to parse)
RawFiles_match_skipping(c, h) ==
    IF h.kind = "Err"
    THEN [kind |-> "Err", err |-> h.err, info |-> NoInfo,
          c |-> [current_entry |-> c.current_entry + 1,
                 current_offset |-> c.current_offset + 46],
          pos |-> h.pos]
    ELSE LET i == from_cdh(h.h)
         IN  IF i.kind = "Panic"
             THEN [kind |-> "Panic", err |-> NoError, info |-> NoInfo,
                   c |-> c, pos |-> h.pos]
             ELSE [kind |-> "Ok", err |-> NoError, info |-> i.info,
                   c |-> [current_entry |-> c.current_entry + 1,
                          current_offset |-> c.current_offset + CDH_total_size(h.h)],
                   pos |-> h.pos]

\* RawFiles::next on the cursor c = [current_entry, current_offset] of a
\* reader with end record er: the item ("Ok" with info, "Err" with err,
\* "None" at the end, or "Panic" inside from_cdh), the cursor and the
\* stream position afterwards.  RawFiles_match is its match on the result
\* h of CentralDirectoryHeader::read.
RawFiles_match(c, h) ==
    IF h.kind = "Err"
    THEN [kind |-> "Err", err |-> h.err, info |-> NoInfo, c |-> c, pos |-> h.pos]
    ELSE LET i == from_cdh(h.h)
         IN  IF i.kind = "Panic"
             THEN [kind |-> "Panic", err |-> NoError, info |-> NoInfo,
                   c |-> c, pos |-> h.pos]
             ELSE [kind |-> "Ok", err |-> NoError, info |-> i.info,
                   c |-> [current_entry |-> c.current_entry + 1,
                          current_offset |-> c.current_offset + CDH_total_size(h.h)],
                   pos |-> h.pos]

\* a step that reads where the stream stands, without the seek
RawFiles_next_unsought(s, er, c, cur) ==
    IF c.current_entry < er.total_entry_count
    THEN RawFiles_match(c, CentralDirectoryHeader_read(s, cur))
    ELSE [kind |-> "None", err |-> NoError, info |-> NoInfo, c |-> c, pos |-> cur]

RawFiles_next(s, er, c, cur) ==
    IF c.current_entry < er.total_entry_count
    THEN RawFiles_match(c, CentralDirectoryHeader_read(s, SeekSet(cur, c.current_offset)))
    ELSE [kind |-> "None", err |-> NoError, info |-> NoInfo, c |-> c, pos |-> cur]

\* Result::unwrap on an item: an error item panics
unwrap(r) == IF r.kind = "Err" THEN [r EXCEPT !.kind = "Panic", !.err = NoError] ELSE r

\* Files::next and FileNames::next: the raw item, unwrapped
Files_next(s, er, c, cur) == unwrap(RawFiles_next(s, er, c, cur))

\* a fresh cursor at the start of the stream
files_raw_from_zero(er) == [current_entry |-> 0, current_offset |-> 0]

\* ZipReader::files_raw: the cursor of a fresh iteration
files_raw(er) == [current_entry |-> 0, current_offset |-> er.central_directory_offset]

\* the loop of ZipReader::info over self.files(), from cursor c; InfoMatch
\* is its body on the item r
RECURSIVE InfoLoop(_, _, _, _, _)
InfoMatch(s, er, name, r) ==
    IF r.kind = "None"
    THEN [kind |-> "Err", err |-> ZipError("FileNotFoundInArchive"),
          info |-> NoInfo, pos |-> r.pos]
    ELSE IF r.kind = "Panic"
         THEN [kind |-> "Panic", err |-> NoError, info |-> NoInfo, pos |-> r.pos]
    ELSE IF MaybeEq(r.info.name, name)
         THEN [kind |-> "Ok", err |-> NoError, info |-> r.info, pos |-> r.pos]
    ELSE InfoLoop(s, er, r.c, r.pos, name)

InfoLoop(s, er, c, cur, name) == InfoMatch(s, er, name, Files_next(s, er, c, cur))

\* ZipReader::info; name is the supplied name's bytes (name.as_bytes())
info(s, er, cur, name) == InfoLoop(s, er, files_raw(er), cur, name)

\* the backward scan of ZipReader::new: i runs over range_inclusive(4,
\* file_size), the 4 bytes at file_size - i are read, and the first match
\* ends the loop; scanned lists the offsets read, in order
RECURSIVE Scan(_, _, _)
Scan(s, i, scanned) ==
    LET file_size == Len(s)
        offset == file_size - i
    IN  IF i > file_size THEN [found |-> FALSE, offset |-> 0, scanned |-> scanned]
        ELSE IF Take(s, offset, 4) = EOCDR_SIGNATURE
             THEN [found |-> TRUE, offset |-> offset, scanned |-> Append(scanned, offset)]
        ELSE Scan(s, i + 1, Append(scanned, offset))

\* ZipReader::new: the result kind, the retained end record, the stream
\* position afterwards and the offsets the scan read; new_found is the part
\* after the scan, on its result sc
\* (a construction that reports a failed read of the record as NotAZipFile)
new_read_or_not_a_zip(sc, e) ==
    [kind |-> e.kind,
     err |-> IF e.kind = "Err" THEN ZipError("NotAZipFile") ELSE e.err,
     end_record |-> e.h, pos |-> e.pos, scanned |-> sc.scanned]

new_read(sc, e) ==
    [kind |-> e.kind, err |-> e.err, end_record |-> e.h, pos |-> e.pos,
     scanned |-> sc.scanned]

\* a constructor that reads a record from the offset whether found or not
new_unchecked(s, sc) ==
    new_read(sc, EndOfCentralDirectoryRecord_read(s, SeekSet(sc.offset + 4, sc.offset)))

new_found(s, sc) ==
    IF ~sc.found
    THEN [kind |-> "Err", err |-> ZipError("NotAZipFile"),
          end_record |-> EndOfCentralDirectoryRecord_new,
          pos |-> IF sc.scanned = << >> THEN Len(s) ELSE 4,
          scanned |-> sc.scanned]
    ELSE new_read(sc, EndOfCentralDirectoryRecord_read(s, SeekSet(sc.offset + 4, sc.offset)))

ZipReader_new(s) == new_found(s, Scan(s, 4, << >>))

\* -------------------------------------------------------------- archives
\* The byte sources the reader is run on, laid out as the overall .ZIP file
\* format: [local file header i][file data i]..., [central directory header
\* i]..., [end of central directory record], written by the record writers.

MaxEntries == 2      \* entries per archive
MaxCommented == 1    \* entries of an archive that has a comment
MaxRaw == 5          \* length of a byte source that is not an archive
MaxRepeat == 2       \* further next() calls after an error item or the end

Hello     == << 104, 101, 108, 108, 111 >>      \* "hello"
DeflHello == << 203, 72, 205, 201, 201, 7, 0 >> \* raw DEFLATE of "hello": 7 bytes
DeflA10   == << 75, 76, 132, 1, 0 >>            \* raw DEFLATE of "aaaaaaaaaa": 5 bytes
DeflA5    == << 75, 76, 4, 2, 0 >>              \* raw DEFLATE of "aaaaa": 5 bytes
BadCrc    == << 1, 2, 3, 4 >>

\* An entry: its name, flags and method code, the raw bytes of its data
\* region, its true content D, the CRC-32 its headers declare, the extra
\* fields of its local and central headers and its file comment.
Entry(name, flag, method, raw, content, crc, lextra, cextra, comment) ==
    [name |-> name, flag |-> flag, method |-> method, raw |-> raw,
     content |-> content, crc |-> crc, lextra |-> lextra, cextra |-> cextra,
     comment |-> comment, lflag |-> flag, lmethod |-> method]

Inflated(raw) == inflate_bytes(raw).bytes

\* the entries archives are made of, in the order they are laid out
EntryList ==
    << Entry(from_bytes(<< 97 >>), 0, 0, Hello, Hello, crc32(Hello), << >>, << >>,
             from_bytes(<< >>)),
       Entry(from_str(<< 97 >>), 2048, 8, DeflA10, Inflated(DeflA10),
             crc32(Inflated(DeflA10)), << >>, << 9 >>, from_str(<< 33 >>)),
       Entry(from_bytes(<< 98 >>), 0, 8, DeflHello, Inflated(DeflHello),
             crc32(Inflated(DeflHello)), << 7, 7 >>, << >>, from_bytes(<< >>)),
       Entry(from_bytes(<< 100 >>), 0, 12, Hello, Hello, crc32(Hello), << >>, << >>,
             from_bytes(<< >>)),
       Entry(from_bytes(<< 99 >>), 0, 0, Hello, Hello, BadCrc, << >>, << >>,
             from_bytes(<< >>)),
       Entry(from_bytes(<< 99 >>), 0, 8, DeflA5, Inflated(DeflA5), BadCrc, << >>, << >>,
             from_bytes(<< >>)),
       Entry(from_bytes(<< 98 >>), 0, 8, DeflA5, Inflated(DeflA5),
             crc32(Inflated(DeflA5)), << >>, << >>, from_bytes(<< >>)) >>

\* the names looked up: those of the menu and one no entry has
LookupNames == { << 97 >>, << 98 >>, << 99 >>, << 100 >>, << 122, 122 >> }

\* the lengths asked of read_first
FirstLengths == { 0, 2, 100 }

Stamp == MsdosDateTime_new(2015, 2, 14, 12, 30, 10)

LFHOf(e) ==
    [version_needed_to_extract |-> 20, general_purpose_bit_flag |-> e.lflag,
     compression_method |-> e.lmethod, last_modified_datetime |-> Stamp,
     crc32 |-> e.crc, compressed_size |-> Len(e.raw),
     uncompressed_size |-> Len(e.content), file_name |-> e.name,
     extra_field |-> e.lextra]

CDHOf(e, off) ==
    [version_made_by |-> 20, version_needed_to_extract |-> 20,
     general_purpose_bit_flag |-> e.flag, compression_method |-> e.method,
     last_modified_datetime |-> Stamp, crc32 |-> e.crc,
     compressed_size |-> Len(e.raw), uncompressed_size |-> Len(e.content),
     disk_number_start |-> 0, internal_file_attributes |-> 0,
     external_file_attributes |-> << 0, 0, 0, 0 >>,
     relative_offset_of_local_header |-> off, file_name |-> e.name,
     extra_field |-> e.cextra, file_comment |-> e.comment]

LocalPart(e) == LocalFileHeader_write(LFHOf(e)).out \o e.raw

\* the offset of the local file header of entry i (1-based)
RECURSIVE LocalOffset(_, _)
LocalOffset(es, i) ==
    IF i = 1 THEN 0 ELSE LocalOffset(es, i - 1) + Len(LocalPart(es[i - 1]))

RECURSIVE LocalParts(_, _)
LocalParts(es, i) ==
    IF i > Len(es) THEN << >> ELSE LocalPart(es[i]) \o LocalParts(es, i + 1)

RECURSIVE CentralParts(_, _)
CentralParts(es, i) ==
    IF i > Len(es) THEN << >>
    ELSE CentralDirectoryHeader_write(CDHOf(es[i], LocalOffset(es, i))).out
         \o CentralParts(es, i + 1)

\* the offset of the central directory header of entry i (1-based)
RECURSIVE CentralOffset(_, _)
CentralOffset(es, i) ==
    IF i = 1 THEN Len(LocalParts(es, 1))
    ELSE CentralOffset(es, i - 1)
         + Len(CentralDirectoryHeader_write(CDHOf(es[i - 1], LocalOffset(es, i - 1))).out)

EOCDROf(es, comment) ==
    [disk_number |-> 0, disk_number_with_start_of_central_directory |-> 0,
     entry_count_this_disk |-> Len(es), total_entry_count |-> Len(es),
     central_directory_size |-> Len(CentralParts(es, 1)),
     central_directory_offset |-> Len(LocalParts(es, 1)), comment |-> comment]

ArchiveBytes(es, comment) ==
    LocalParts(es, 1) \o CentralParts(es, 1)
    \o EndOfCentralDirectoryRecord_write(EOCDROf(es, comment)).out

\* the descriptor iteration is expected to give for entry i of the archive
ExpectedInfo(es, i) ==
    [name |-> es[i].name,
     compression_method |-> from_u16(es[i].method),
     last_modified_datetime |-> << 2015, 2, 14, 12, 30, 10 >>,
     crc32 |-> es[i].crc,
     compressed_size |-> Len(es[i].raw),
     uncompressed_size |-> Len(es[i].content),
     is_encrypted |-> FALSE,
     local_file_header_offset |-> LocalOffset(es, i)]

\* archive comments: none, plain text, the bare EOCDR signature, and a
\* whole record (signature and 18 zero bytes) of an archive with no entry
Comments ==
    { << >>, << 104, 105 >>, EOCDR_SIGNATURE,
      EOCDR_SIGNATURE \o [i \in 1..18 |-> 0] }

\* the runs of at most n consecutive entries of EntryList
EntrySeqs(n) ==
    { SubSeq(EntryList, w[1], w[1] + w[2] - 1) :
          w \in { v \in (1..Len(EntryList)) \X (0..n) : v[1] + v[2] - 1 <= Len(EntryList) } }

ArchiveOf(es, c) ==
    [valid |-> TRUE, entries |-> es, comment |-> c, data |-> ArchiveBytes(es, c)]

\* the archives: every run of at most MaxEntries entries with no comment,
\* and every run of at most MaxCommented entries with each comment
Archives ==
    { ArchiveOf(es, << >>) : es \in EntrySeqs(MaxEntries) }
    \cup { ArchiveOf(es, c) : es \in EntrySeqs(MaxCommented), c \in Comments }

\* a damaged archive: the end record declares one entry more than the
\* central directory holds
DamagedOf(es) ==
    [valid |-> FALSE, entries |-> es, comment |-> << >>,
     data |-> LocalParts(es, 1) \o CentralParts(es, 1)
              \o EndOfCentralDirectoryRecord_write(
                     [EOCDROf(es, << >>) EXCEPT !.entry_count_this_disk = Len(es) + 1,
                                               !.total_entry_count = Len(es) + 1]).out]

Damaged == { DamagedOf(es) : es \in EntrySeqs(MaxCommented) }

\* Archives of one entry the reader does not support, or whose local file
\* header says other than its central directory header: each unsupported
\* flag in the local header, alone or in both headers, each pairing of a
\* central method 0 or 8 with a local method 0, 8 or 12, and a deflated
\* and a stored entry whose headers declare the CRC-32 0.
OddEntries ==
    LET stored(flag, lflag) ==
            [Entry(from_bytes(<< 97 >>), flag, 0, Hello, Hello, crc32(Hello), << >>, << >>,
                   from_bytes(<< >>)) EXCEPT !.lflag = lflag]
        packed(method, lmethod) ==
            [Entry(from_bytes(<< 98 >>), 0, method, DeflA5, Inflated(DeflA5),
                   crc32(Inflated(DeflA5)), << >>, << >>, from_bytes(<< >>))
                EXCEPT !.lmethod = lmethod]
    IN  { stored(0, fl) : fl \in { 1, 8, 32, 64, 8192 } }
        \cup { stored(fl, fl) : fl \in { 1, 8 } }
        \cup { packed(m, lm) : m \in { 0, 8 }, lm \in { 0, 8, 12 } }
        \cup { [packed(8, 8) EXCEPT !.crc = << 0, 0, 0, 0 >>],
               [stored(0, 0) EXCEPT !.crc = << 0, 0, 0, 0 >>] }

Odd ==
    { [valid |-> FALSE, entries |-> << e >>, comment |-> << >>,
       data |-> ArchiveBytes(<< e >>, << >>)] : e \in OddEntries }

\* Archives of one stored entry whose end record declares a layout the
\* reader does not support: another disk number, another disk for the
\* start of the central directory, fewer entries on this disk than in
\* all, and the ZIP64 sentinel 0xFFFF for the two counts.
Unusual ==
    LET es == << EntryList[1] >>
        er == EOCDROf(es, << >>)
        ends == { [er EXCEPT !.disk_number = 1],
                  [er EXCEPT !.disk_number_with_start_of_central_directory = 1],
                  [er EXCEPT !.entry_count_this_disk = 0],
                  [er EXCEPT !.entry_count_this_disk = 65535,
                             !.total_entry_count = 65535] }
    IN  { [valid |-> FALSE, entries |-> es, comment |-> << >>,
           data |-> LocalParts(es, 1) \o CentralParts(es, 1)
                    \o EndOfCentralDirectoryRecord_write(e).out] : e \in ends }

\* An archive whose central directory has two headers for one local file
\* header: that of the entry, deflated, and one that gives another name,
\* method, CRC and sizes; the local header has an extra field of its own.
Aliased ==
    LET e == [EntryList[7] EXCEPT !.lextra = << 7, 7 >>]
        alias == [EntryList[5] EXCEPT !.raw = << 104, 105 >>, !.content = << 104, 105 >>]
        directory == CentralDirectoryHeader_write(CDHOf(e, 0)).out
                     \o CentralDirectoryHeader_write(CDHOf(alias, 0)).out
    IN  { [valid |-> FALSE, entries |-> << e, alias >>, comment |-> << >>,
           data |-> LocalPart(e) \o directory
                    \o EndOfCentralDirectoryRecord_write(
                           [EOCDROf(<< e >>, << >>)
                               EXCEPT !.entry_count_this_disk = 2,
                                      !.total_entry_count = 2,
                                      !.central_directory_size = Len(directory)]).out] }

\* Archives cut short: the end record declares a comment of two bytes and
\* the source ends after the first of them.
Truncated ==
    { [valid |-> FALSE, entries |-> es, comment |-> << 104, 105 >>,
       data |-> SubSeq(ArchiveBytes(es, << 104, 105 >>), 1,
                       Len(ArchiveBytes(es, << 104, 105 >>)) - 1)] :
          es \in EntrySeqs(MaxCommented) }

\* byte sources that are not archives: every sequence of at most MaxRaw
\* bytes drawn from the bytes of the EOCDR signature
RawSources ==
    { [valid |-> FALSE, entries |-> << >>, comment |-> << >>, data |-> d] :
          d \in UNION { [1..n -> { 80, 75, 5, 6 }] : n \in 0..MaxRaw } }

\* ----------------------------------------------------------------- state
VARIABLES
    data,        \* the bytes of the byte source
    arch,        \* what the bytes were built from (entries and comment)
    phase,       \* "start", "open" (constructed), "failed" (new returned Err),
                 \* "aborted" (a panic)
    pos,         \* the stream position of the byte source
    end_record,  \* ZipReader.end_record
    scanned,     \* the offsets ZipReader::new read during its scan
    it,          \* the live iterator: its kind ("none" when there is none)
                 \* and its cursor [current_entry, current_offset]
    itg,         \* of the live iteration: items yielded, error items
                 \* yielded, end-of-sequence reports, and the last item
    held,        \* the FileInfo values the caller holds
    last,        \* the last operation, its arguments and its result
    reads        \* the log of the full extractions so far

vars == << data, arch, phase, pos, end_record, scanned, it, itg, held, last, reads >>

NoCursor == [current_entry |-> 0, current_offset |-> 0]
NoIter == [kind |-> "none", c |-> NoCursor]
NoItg == [yielded |-> 0, errs |-> 0, nones |-> 0, item |-> "none"]

\* the record of an operation: op with arguments f, n, name; its result
\* kind, err, bytes (extraction) or info (lookup, iteration); the bytes
\* the writer received
Last(op, f, n, name, kind, err, bytes, inf, sink) ==
    [op |-> op, f |-> f, n |-> n, name |-> name, kind |-> kind, err |-> err,
     bytes |-> bytes, info |-> inf, sink |-> sink]

\* the log of full extractions: one record for each FileInfo and result,
\* marked again when that extraction was repeated with the same result
\* after some other operation
SameResult(a, f, r) == a.f = f /\ a.kind = r.kind /\ a.err = r.err /\ a.bytes = r.bytes

Logged(log, f, r, other) ==
    IF \E a \in log : SameResult(a, f, r)
    THEN { IF SameResult(a, f, r) /\ other THEN [a EXCEPT !.again = TRUE] ELSE a :
               a \in log }
    ELSE log \cup { [f |-> f, kind |-> r.kind, err |-> r.err, bytes |-> r.bytes,
                     again |-> FALSE] }

Init ==
    /\ \E a \in Archives \cup Damaged \cup Odd \cup Unusual \cup Aliased \cup Truncated
                \cup RawSources :
          /\ data = a.data
          /\ arch = [valid |-> a.valid, entries |-> a.entries, comment |-> a.comment]
    /\ phase = "start"
    /\ pos = 0
    /\ end_record = EndOfCentralDirectoryRecord_new
    /\ scanned = << >>
    /\ it = NoIter
    /\ itg = NoItg
    /\ held = {}
    /\ last = Last("none", NoInfo, 0, << >>, "none", NoError, << >>, NoInfo, << >>)
    /\ reads = {}

\* ZipReader::new(reader)
New ==
    /\ phase = "start"
    /\ \E r \in { ZipReader_new(data) } :
           /\ phase' = IF r.kind = "Ok" THEN "open" ELSE "failed"
           /\ pos' = r.pos
           /\ end_record' = r.end_record
           /\ scanned' = r.scanned
           /\ last' = Last("new", NoInfo, 0, << >>, r.kind, r.err, << >>, NoInfo, << >>)
    /\ UNCHANGED << data, arch, it, itg, held, reads >>

\* reader.files_raw(), reader.files(), reader.file_names(): a fresh iteration,
\* which borrows the reader until it is dropped
FilesRaw(kind) ==
    /\ phase = "open" /\ it.kind = "none"
    /\ it' = [kind |-> kind, c |-> files_raw(end_record)]
    /\ itg' = NoItg
    /\ last' = Last(kind, NoInfo, 0, << >>, "Ok", NoError, << >>, NoInfo, << >>)
    /\ UNCHANGED << data, arch, phase, pos, end_record, scanned, held, reads >>

\* iterator.next() on the live iterator
Next_ ==
    /\ phase = "open" /\ it.kind # "none"
    /\ itg.errs + itg.nones <= MaxRepeat
    /\ \E r \in { IF it.kind = "raw" THEN RawFiles_next(data, end_record, it.c, pos)
                 ELSE Files_next(data, end_record, it.c, pos) } :
           /\ it' = [it EXCEPT !.c = r.c]
           /\ pos' = r.pos
           /\ phase' = IF r.kind = "Panic" THEN "aborted" ELSE phase
           /\ itg' = [yielded |-> itg.yielded + (IF r.kind = "Ok" THEN 1 ELSE 0),
                      errs |-> itg.errs + (IF r.kind = "Err" THEN 1 ELSE 0),
                      nones |-> itg.nones + (IF r.kind = "None" THEN 1 ELSE 0),
                      item |-> r.kind]
           /\ held' = IF r.kind = "Ok" /\ it.kind # "names" THEN held \cup {r.info}
                      ELSE held
           /\ last' = Last("next", NoInfo, 0, << >>, r.kind, r.err, << >>, r.info, << >>)
    /\ UNCHANGED << data, arch, end_record, scanned, reads >>

\* the iterator is dropped, drained or not
Drop ==
    /\ phase = "open" /\ it.kind # "none"
    /\ it' = NoIter
    /\ UNCHANGED << data, arch, phase, pos, end_record, scanned, itg, held, last, reads >>

\* reader.info(name)
Info(name) ==
    /\ phase = "open" /\ it.kind = "none"
    /\ \E r \in { info(data, end_record, pos, name) } :
           /\ pos' = r.pos
           /\ phase' = IF r.kind = "Panic" THEN "aborted" ELSE phase
           /\ held' = IF r.kind = "Ok" THEN held \cup {r.info} ELSE held
           /\ last' = Last("info", NoInfo, 0, name, r.kind, r.err, << >>, r.info, << >>)
    /\ UNCHANGED << data, arch, end_record, scanned, it, itg, reads >>

\* (a sink that is handed the bytes twice)
write_all_twice(r) == IF r.kind = "Ok" THEN r.bytes \o r.bytes ELSE << >>

\* what extract_file and extract_first hand to the writer: the bytes of an
\* Ok result, in one write_all; an error is returned before any write
write_all(r) == IF r.kind = "Ok" THEN r.bytes ELSE << >>

\* reader.extract_file(f, writer): reader.read(f), whose result last keeps,
\* and on Ok one write_all of the bytes to the (empty) writer
ExtractFile(f) ==
    /\ phase = "open" /\ it.kind = "none"
    /\ \E r \in { read(data, pos, f) } :
           /\ pos' = r.pos
           /\ phase' = IF r.kind = "Panic" THEN "aborted" ELSE phase
           /\ last' = Last("read", f, 0, << >>, r.kind, r.err, r.bytes, NoInfo,
                           write_all(r))
           /\ reads' = Logged(reads, f, r, last.op # "read")
    /\ UNCHANGED << data, arch, end_record, scanned, it, itg, held >>

\* reader.extract_first(f, n, writer): reader.read_first(f, n) and the write
ExtractFirst(f, n) ==
    /\ phase = "open" /\ it.kind = "none"
    /\ \E r \in { read_first(data, pos, f, n) } :
           /\ pos' = r.pos
           /\ phase' = IF r.kind = "Panic" THEN "aborted" ELSE phase
           /\ last' = Last("read_first", f, n, << >>, r.kind, r.err, r.bytes, NoInfo,
                           write_all(r))
    /\ UNCHANGED << data, arch, end_record, scanned, it, itg, held, reads >>

Next ==
    \/ New
    \/ \E kind \in { "raw", "files", "names" } : FilesRaw(kind)
    \/ Next_
    \/ Drop
    \/ \E name \in LookupNames : Info(name)
    \/ \E f \in held : ExtractFile(f)
    \/ \E f \in held, n \in FirstLengths : ExtractFirst(f, n)

Spec == Init /\ [][Next]_vars

\* --------------------------------------------------------- record codecs
\* The record codecs on their own, in the same variables: arch is a record
\* in memory, data the bytes of a sink that a reader then reads back, pos
\* the position of that reader, last the write or read last performed;
\* phase goes from "made" (nothing written yet) to "written" to "read".
U16_MAX == 65535

\* a field too long for its 16-bit length prefix
TooLong == [i \in 1..(U16_MAX + 1) |-> 0]

LFHRecord(flag, method, name, extra) ==
    [version_needed_to_extract |-> 20, general_purpose_bit_flag |-> flag,
     compression_method |-> method, last_modified_datetime |-> Stamp,
     crc32 |-> BadCrc, compressed_size |-> 300, uncompressed_size |-> 70000,
     file_name |-> name, extra_field |-> extra]

CDHRecord(flag, method, name, extra, comment) ==
    [version_made_by |-> 798, version_needed_to_extract |-> 20,
     general_purpose_bit_flag |-> flag, compression_method |-> method,
     last_modified_datetime |-> Stamp, crc32 |-> BadCrc,
     compressed_size |-> 300, uncompressed_size |-> 70000,
     disk_number_start |-> 1, internal_file_attributes |-> 513,
     external_file_attributes |-> << 0, 0, 164, 129 >>,
     relative_offset_of_local_header |-> 66000, file_name |-> name,
     extra_field |-> extra, file_comment |-> comment]

EOCDRRecord(count, comment) ==
    [disk_number |-> 2, disk_number_with_start_of_central_directory |-> 1,
     entry_count_this_disk |-> count, total_entry_count |-> count,
     central_directory_size |-> 300, central_directory_offset |-> 70000,
     comment |-> comment]

\* the records written: every combination of a few values of the flags,
\* the method, the name, the extra field and the comment, and one record
\* for each variable field made too long
Records ==
    LET names == { from_bytes(<< >>), from_bytes(<< 97 >>), from_bytes(<< 255 >>),
                   from_str(<< 97 >>), from_str(<< 195, 169 >>) }
        extras == { << >>, << 7, 7 >> }
        comments == { from_bytes(<< >>), from_bytes(<< 255 >>), from_str(<< 33 >>) }
    IN  { [rec |-> "LFH", h |-> LFHRecord(fl, m, n, x)] :
              fl \in { 0, 1, 8, 32, 64, 2048, 2049, 8192 }, m \in { 0, 8, 12, U16_MAX },
              n \in names, x \in extras }
        \cup { [rec |-> "LFH", h |-> LFHRecord(0, 0, from_bytes(TooLong), << >>)],
               [rec |-> "LFH", h |-> LFHRecord(0, 0, from_bytes(<< 97 >>), TooLong)] }
        \cup { [rec |-> "CDH", h |-> CDHRecord(fl, m, n, x, c)] :
                   fl \in { 0, 1, 2048 }, m \in { 0, 12 }, n \in names,
                   x \in extras, c \in comments }
        \cup { [rec |-> "CDH",
                h |-> CDHRecord(0, 0, from_bytes(TooLong), << >>, from_bytes(<< >>))],
               [rec |-> "CDH",
                h |-> CDHRecord(0, 0, from_bytes(<< 97 >>), TooLong, from_bytes(<< >>))],
               [rec |-> "CDH",
                h |-> CDHRecord(0, 0, from_bytes(<< 97 >>), << >>, from_bytes(TooLong))] }
        \cup { [rec |-> "EOCDR", h |-> EOCDRRecord(n, c)] :
                   n \in { 0, 1, U16_MAX }, c \in { << >>, << 104, 105 >>, TooLong } }

\* what the sink holds before the write
Sinks == { << >>, << 1, 2, 3 >> }

\* every variable field of the record fits its 16-bit length prefix
Fits(r) ==
    IF r.rec = "LFH"
    THEN Len(r.h.file_name.bytes) <= U16_MAX /\ Len(r.h.extra_field) <= U16_MAX
    ELSE IF r.rec = "CDH"
    THEN /\ Len(r.h.file_name.bytes) <= U16_MAX /\ Len(r.h.extra_field) <= U16_MAX
         /\ Len(r.h.file_comment.bytes) <= U16_MAX
    ELSE Len(r.h.comment) <= U16_MAX

\* The bytes of a header as another writer lays them out: the fields in
\* the order of the format, the name and comment bytes as they are,
\* whatever the flags say of them.
Foreign(r) ==
    IF r.rec = "LFH"
    THEN LET b == LocalFileHeader_write([r.h EXCEPT !.general_purpose_bit_flag = 0]).out
         IN  Take(b, 0, 6) \o LE16(r.h.general_purpose_bit_flag) \o Take(b, 8, Len(b) - 8)
    ELSE LET b == CentralDirectoryHeader_write(
                      [r.h EXCEPT !.general_purpose_bit_flag = 0]).out
         IN  Take(b, 0, 8) \o LE16(r.h.general_purpose_bit_flag) \o Take(b, 10, Len(b) - 10)

\* the record of a codec operation: op "write" or "read" of record type
\* rec at offset start of the sink; its result kind, err and (read) h;
\* what the sink held before; how the write of the bytes had ended
Coded(op, rec, start, kind, err, h, before, wrote) ==
    [op |-> op, rec |-> rec, start |-> start, kind |-> kind, err |-> err, h |-> h,
     before |-> before, wrote |-> wrote]

CodecInit ==
    /\ \E r \in Records :
          /\ arch = r
          /\ \/ \E b \in Sinks : data = b /\ phase = "made"
             \/ /\ r.rec \in { "LFH", "CDH" } /\ Fits(r)
                /\ data = Foreign(r) /\ phase = "written"
    /\ pos = 0
    /\ last = Coded("none", "none", 0, "none", NoError, << >>, << >>, "foreign")
    /\ end_record = EndOfCentralDirectoryRecord_new
    /\ scanned = << >>
    /\ it = NoIter
    /\ itg = NoItg
    /\ held = {}
    /\ reads = {}

\* what a write leaves: the bytes that reached the sink after those it
\* held, and a reader placed where the record begins
Written(rec, w) ==
    /\ data' = data \o w.out
    /\ pos' = Len(data)
    /\ phase' = "written"
    /\ last' = Coded("write", rec, Len(data), IF w.ok THEN "Ok" ELSE "Err", w.err,
                     arch.h, data, IF w.ok THEN "Ok" ELSE "Err")
    /\ UNCHANGED << arch, end_record, scanned, it, itg, held, reads >>

\* header.write(&mut sink) for each record type
WriteLFH ==
    /\ phase = "made" /\ arch.rec = "LFH"
    /\ \E w \in { LocalFileHeader_write(arch.h) } : Written("LFH", w)

WriteCDH ==
    /\ phase = "made" /\ arch.rec = "CDH"
    /\ \E w \in { CentralDirectoryHeader_write(arch.h) } : Written("CDH", w)

WriteEOCDR ==
    /\ phase = "made" /\ arch.rec = "EOCDR"
    /\ \E w \in { EndOfCentralDirectoryRecord_write(arch.h) } : Written("EOCDR", w)

\* what a read leaves: the stream where the read left it, and the result
WasRead(rec, r) ==
    /\ pos' = r.pos
    /\ phase' = "read"
    /\ last' = Coded("read", rec, pos, r.kind, r.err, r.h, last.before, last.wrote)
    /\ UNCHANGED << data, arch, end_record, scanned, it, itg, held, reads >>

\* Record::read(&mut reader) of each record type, whatever was written
ReadLFH ==
    /\ phase = "written"
    /\ \E r \in { LocalFileHeader_read(data, pos) } : WasRead("LFH", r)

ReadCDH ==
    /\ phase = "written"
    /\ \E r \in { CentralDirectoryHeader_read(data, pos) } : WasRead("CDH", r)

ReadEOCDR ==
    /\ phase = "written"
    /\ \E r \in { EndOfCentralDirectoryRecord_read(data, pos) } : WasRead("EOCDR", r)

CodecNext ==
    \/ WriteLFH
    \/ WriteCDH
    \/ WriteEOCDR
    \/ ReadLFH
    \/ ReadCDH
    \/ ReadEOCDR

CodecSpec == CodecInit /\ [][CodecNext]_vars

\* ------------------------------------------------------------ timestamps
\* MsdosDateTime on its own, in the same variables: arch the six fields
\* given to new, data the four bytes of a stream, last the operation last
\* performed with the value d it made or used; phase is "fields" (new is
\* to be called), "stream" (read is to be called), "value" (a value is
\* held) and then "written".
DateFields ==
    { [year |-> y, month |-> mo, day |-> d, hour |-> h, minute |-> mi, second |-> s] :
          y \in { 1980, 2015, 2107 }, mo \in { 0, 12, 15 }, d \in { 0, 14, 31 },
          h \in { 0, 12, 31 }, mi \in { 0, 30, 63 }, s \in { 0, 1, 10, 11, 62, 63 } }

DateWords == { 0, 1, 255, 256, 25541, 32768, U16_MAX }

Dated(op, d, tuple, out) == [op |-> op, d |-> d, tuple |-> tuple, out |-> out]

DateInit ==
    /\ \/ /\ arch \in DateFields /\ data = << >> /\ phase = "fields"
       \/ /\ arch = [year |-> 1980, month |-> 0, day |-> 0, hour |-> 0, minute |-> 0,
                     second |-> 0]
          /\ \E t \in DateWords, d \in DateWords : data = LE16(t) \o LE16(d)
          /\ phase = "stream"
    /\ pos = 0
    /\ last = Dated("none", MsdosDateTime_zero, << >>, << >>)
    /\ end_record = EndOfCentralDirectoryRecord_new
    /\ scanned = << >>
    /\ it = NoIter
    /\ itg = NoItg
    /\ held = {}
    /\ reads = {}

\* MsdosDateTime::new(year, month, day, hour, minute, second), and to_tuple
\* of the value
NewDate ==
    /\ phase = "fields"
    /\ \E d \in { MsdosDateTime_new(arch.year, arch.month, arch.day, arch.hour,
                                    arch.minute, arch.second) } :
           last' = Dated("new", d, to_tuple(d), << >>)
    /\ phase' = "value"
    /\ UNCHANGED << data, arch, pos, end_record, scanned, it, itg, held, reads >>

\* MsdosDateTime::read(&mut reader), and to_tuple of the value
ReadDate ==
    /\ phase = "stream"
    /\ \E d \in { MsdosDateTime_read(Take(data, pos, 4)) } :
           last' = Dated("read", d, to_tuple(d), << >>)
    /\ pos' = pos + 4
    /\ phase' = "value"
    /\ UNCHANGED << data, arch, end_record, scanned, it, itg, held, reads >>

\* value.write(&mut writer), to an empty writer
WriteDate ==
    /\ phase = "value"
    /\ last' = Dated(IF last.op = "new" THEN "new-write" ELSE "read-write", last.d,
                     last.tuple, MsdosDateTime_write(last.d))
    /\ phase' = "written"
    /\ UNCHANGED << data, arch, pos, end_record, scanned, it, itg, held, reads >>

DateNext ==
    \/ NewDate
    \/ ReadDate
    \/ WriteDate

DateSpec == DateInit /\ [][DateNext]_vars

\* --------------------------------------------------------------- claims
\* What the archive says of the operation last performed.

Min(a, b) == IF a < b THEN a ELSE b

\* the entries of the archive laid out at the offset a FileInfo carries
EntryAt(f) ==
    { i \in 1..Len(arch.entries) :
          LocalOffset(arch.entries, i) = f.local_file_header_offset }

\* the entry the last extraction was asked for
LastEntry == arch.entries[CHOOSE i \in EntryAt(last.f) : TRUE]

\* the last operation extracted, in full or in part, a Store or Deflate
\* entry of a valid archive
ExtractedEntry(op) ==
    /\ arch.valid /\ last.op = op /\ EntryAt(last.f) # {}
    /\ LastEntry.method \in { 0, 8 }

CrcMatches(e) == e.crc = crc32(e.content)

IsPrefix(a, b) == Len(a) <= Len(b) /\ a = SubSeq(b, 1, Len(a))

\* C1: full extraction of a Store or Deflate entry whose declared CRC
\* matches returns, and writes to the sink, the complete decompressed
\* content of the entry.
C1_FullExtractionReturnsContent ==
    (ExtractedEntry("read") /\ CrcMatches(LastEntry))
        => /\ last.kind = "Ok"
           /\ last.bytes = LastEntry.content
           /\ last.sink = LastEntry.content

\* C2: full extraction of a Store or Deflate entry whose declared CRC
\* differs from the CRC-32 of its decompressed content fails with CrcError
\* and returns no content.
C2_CrcMismatchFails ==
    (ExtractedEntry("read") /\ ~CrcMatches(LastEntry))
        => /\ last.kind = "Err"
           /\ last.err.kind = "CrcError"
           /\ last.bytes = << >>
           /\ last.sink = << >>

\* C3: read_first(f, n) of a Store or Deflate entry returns exactly the
\* first min(n, |D|) bytes of the entry's decompressed content D.
C3_PartialIsPrefixOfContent ==
    ExtractedEntry("read_first")
        => /\ last.kind = "Ok"
           /\ last.bytes = SubSeq(LastEntry.content, 1,
                                  Min(last.n, Len(LastEntry.content)))

\* C4: for an entry whose declared CRC does not match its content, full
\* extraction fails with CrcError and partial extraction succeeds with a
\* prefix of the decompressed content.
C4_PartialSkipsCrc ==
    /\ (ExtractedEntry("read") /\ ~CrcMatches(LastEntry))
           => (last.kind = "Err" /\ last.err.kind = "CrcError")
    /\ (ExtractedEntry("read_first") /\ ~CrcMatches(LastEntry))
           => (last.kind = "Ok" /\ IsPrefix(last.bytes, LastEntry.content))

\* C5: ZipReader::new on a valid archive, whatever the bytes of its archive
\* comment, succeeds and retains the archive's own end record.
C5_NewFindsTheEndRecord ==
    (arch.valid /\ phase # "start")
        => /\ phase # "failed"
           /\ end_record = [EOCDROf(arch.entries, arch.comment)
                               EXCEPT !.comment = arch.comment]

\* the source holds the EOCDR signature at no offset
NoMagic(s) == \A p \in 0..(Len(s) - 4) : Take(s, p, 4) # EOCDR_SIGNATURE

\* C6: ZipReader::new on a source that holds the EOCDR signature at no
\* offset fails with NotAZipFile; the offsets it reads are L-4 down to 0,
\* each once, and none when the source is shorter than 4 bytes.
C6_NoMagicIsNotAZipFile ==
    (phase # "start" /\ NoMagic(data))
        => /\ phase = "failed"
           /\ last.op = "new" /\ last.kind = "Err"
           /\ last.err = ZipError("NotAZipFile")
           /\ \A k \in 1..Len(scanned) :
                 scanned[k] >= 0 /\ scanned[k] <= Len(data) - 4
           /\ Len(data) < 4 => scanned = << >>
           /\ Len(data) >= 4 => scanned = [k \in 1..(Len(data) - 3) |-> Len(data) - 3 - k]

\* a source of at least 4 bytes without the signature was scanned and refused
C6_Witness ==
    /\ phase = "failed" /\ NoMagic(data) /\ Len(data) >= 4
    /\ Len(scanned) >= 2 /\ last.err = ZipError("NotAZipFile")

\* C7: an iteration over a valid archive yields one item per central
\* directory header, in directory order, total_entry_count items in all,
\* and reports the end of the sequence only after them.
C7_IterationYieldsEveryEntry ==
    (arch.valid /\ it.kind # "none")
        => /\ itg.item \in { "none", "Ok", "None" }
           /\ itg.yielded <= Len(arch.entries)
           /\ itg.nones > 0 => itg.yielded = Len(arch.entries)
           /\ (last.op = "next" /\ last.kind = "Ok")
                  => last.info = ExpectedInfo(arch.entries, itg.yielded)

\* C8: a raw iteration yields at most one error item, after which every
\* next reports the end of the sequence; it yields at most
\* total_entry_count + 1 items.
C8_ErrorEndsIteration ==
    it.kind = "raw"
        => /\ itg.errs <= 1
           /\ (itg.errs = 1 /\ last.op = "next") => itg.item \in { "Err", "None" }
           /\ itg.yielded + itg.errs <= end_record.total_entry_count + 1

\* the entries of the archive whose name has the bytes b
Named(b) == { i \in 1..Len(arch.entries) : as_bytes(arch.entries[i].name) = b }

\* C9: info(name) on a valid archive returns the descriptor, with the local
\* header offset, of the first entry in directory order whose name has the
\* supplied bytes, and fails with FileNotFoundInArchive when there is none.
C9_InfoFindsFirstMatch ==
    (arch.valid /\ last.op = "info")
        => IF Named(last.name) = {}
           THEN last.kind = "Err" /\ last.err = ZipError("FileNotFoundInArchive")
           ELSE /\ last.kind = "Ok"
                /\ last.info = ExpectedInfo(arch.entries,
                       CHOOSE i \in Named(last.name) : \A j \in Named(last.name) : i <= j)

\* C10: every full extraction of one FileInfo on one reader has the same
\* result, wherever the operations before it left the stream position.
C10_ReadIsIdempotent ==
    \A a, b \in reads :
        a.f = b.f => (a.kind = b.kind /\ a.err = b.err /\ a.bytes = b.bytes)

\* one FileInfo was extracted in full, with content, a second time after
\* another operation had moved the stream
C10_Witness ==
    \E a \in reads : a.again /\ a.kind = "Ok" /\ a.bytes # << >>

\* ---------------------------------------------- claims on the record codecs
\* the flags LocalFileHeader::read refuses
Unsupported(h) ==
    \E bit \in { 1, 8, 32, 64, 8192 } : BitAnd(h.general_purpose_bit_flag, bit) # 0

\* a record of type rec whose fields fit was written, and the bytes were
\* read back by the reader of that type
RoundTrip(rec) ==
    /\ phase = "read" /\ arch.rec = rec /\ last.rec = rec
    /\ last.wrote # "foreign" /\ Fits(arch)

\* a header with its name taken by bytes
NameByBytes(h) == [h EXCEPT !.file_name = as_bytes(h.file_name)]

\* the write succeeded, the read succeeded and gave the header written
LFHReadBack ==
    /\ last.wrote = "Ok" /\ last.kind = "Ok"
    /\ NameByBytes(last.h) = NameByBytes(arch.h)

\* C11 as stated: every LocalFileHeader with any 16-bit flag, any 16-bit
\* method and a name and extra field of at most 65535 bytes is written and
\* read back equal.
C11_AnyFlagRoundTrip == RoundTrip("LFH") => LFHReadBack

\* C11: a LocalFileHeader with none of the flags 0x1, 0x8, 0x20, 0x40 and
\* 0x2000, any 16-bit method, a name and extra field of at most 65535
\* bytes, and a name that is valid UTF-8 when flag 0x800 is set, is written
\* and read back equal field by field, the name by bytes.
C11_LFHRoundTrip ==
    (/\ RoundTrip("LFH") /\ ~Unsupported(arch.h)
     /\ has_utf8_name(arch.h) => as_str_is_some(arch.h.file_name))
        => LFHReadBack

\* a header with flag 0x800, a two-byte UTF-8 name, an extra field and
\* method 65535 was written and read back
C11_Witness ==
    /\ RoundTrip("LFH") /\ last.kind = "Ok"
    /\ last.h.general_purpose_bit_flag = 2048
    /\ last.h.file_name = from_str(<< 195, 169 >>)
    /\ last.h.extra_field = << 7, 7 >>
    /\ last.h.compression_method = U16_MAX

\* a central directory header with its name and comment taken by bytes
TextByBytes(h) ==
    [h EXCEPT !.file_name = as_bytes(h.file_name),
              !.file_comment = as_bytes(h.file_comment)]

\* the bytes the write added to the sink
BytesWritten == Len(data) - Len(last.before)

CDHReadBack ==
    /\ last.wrote = "Ok" /\ last.kind = "Ok"
    /\ TextByBytes(last.h) = TextByBytes(arch.h)
    /\ BytesWritten = 46 + Len(arch.h.file_name.bytes) + Len(arch.h.extra_field)
                         + Len(arch.h.file_comment.bytes)

EOCDRReadBack ==
    /\ last.wrote = "Ok" /\ last.kind = "Ok"
    /\ last.h = arch.h
    /\ BytesWritten = 22 + Len(arch.h.comment)

\* C12 as stated: every CentralDirectoryHeader and EndOfCentralDirectoryRecord
\* whose fields are in range is written and read back equal, and the write
\* adds 46 + name + extra + comment bytes, or 22 + comment bytes.
C12_AnyTextRoundTrip ==
    /\ RoundTrip("CDH") => CDHReadBack
    /\ RoundTrip("EOCDR") => EOCDRReadBack

\* C12: a CentralDirectoryHeader whose fields are in range and whose name
\* and comment are valid UTF-8 when flag 0x800 is set, and every
\* EndOfCentralDirectoryRecord whose fields are in range, is written and
\* read back equal field by field (name and comment by bytes); the write
\* adds 46 + name + extra + comment bytes, or 22 + comment bytes.
C12_CDHAndEOCDRRoundTrip ==
    /\ (/\ RoundTrip("CDH")
        /\ has_utf8_name(arch.h) => (/\ as_str_is_some(arch.h.file_name)
                                     /\ as_str_is_some(arch.h.file_comment)))
           => CDHReadBack
    /\ RoundTrip("EOCDR") => EOCDRReadBack

\* a central directory header with flag 0x800, a two-byte UTF-8 name, an
\* extra field and a text comment was written and read back
C12_Witness ==
    /\ RoundTrip("CDH") /\ last.kind = "Ok"
    /\ last.h.general_purpose_bit_flag = 2048
    /\ last.h.file_name = from_str(<< 195, 169 >>)
    /\ last.h.extra_field = << 7, 7 >>
    /\ last.h.file_comment = from_str(<< 33 >>)
    /\ BytesWritten = 51

\* C13: writing a record whose name, extra field or comment is longer than
\* 65535 bytes fails with TooLongField and leaves in the sink exactly the
\* bytes it held before the call.
C13_TooLongWritesNothing ==
    (last.op = "write" /\ ~Fits(arch))
        => /\ last.kind = "Err" /\ last.err = ZipError("TooLongField")
           /\ data = last.before

\* the 16-bit length field at offset off of the record last read
LengthField(off) == U16(Take(data, last.start + off, 2))

\* C14: a successful record read leaves the stream at its starting
\* position plus the record's total size: 30 + name + extra lengths for a
\* Local File Header, 46 + name + extra + comment lengths for a Central
\* Directory Header, 22 + comment length for an End-of-Central-Directory
\* record, which is total_size() of the header returned.
C14_ReadAdvancesByTotalSize ==
    (last.op = "read" /\ last.kind = "Ok")
        => /\ last.rec = "LFH"
                => /\ pos = last.start + 30 + LengthField(26) + LengthField(28)
                   /\ pos = last.start + LFH_total_size(last.h)
           /\ last.rec = "CDH"
                => /\ pos = last.start + 46 + LengthField(28) + LengthField(30)
                                       + LengthField(32)
                   /\ pos = last.start + CDH_total_size(last.h)
           /\ last.rec = "EOCDR"
                => pos = last.start + 22 + LengthField(20)

\* a central directory header with a name, an extra field and a comment
\* was read from offset 3 of the stream
C14_Witness ==
    /\ last.op = "read" /\ last.kind = "Ok" /\ last.rec = "CDH" /\ last.start = 3
    /\ LengthField(28) = 2 /\ LengthField(30) = 2 /\ LengthField(32) = 1
    /\ pos = 54

\* the signature the reader of record type rec expects
Signature(rec) ==
    IF rec = "LFH" THEN LFH_SIGNATURE
    ELSE IF rec = "CDH" THEN CDH_SIGNATURE ELSE EOCDR_SIGNATURE

\* the four bytes at the start of the record last read
Observed == Take(data, last.start, 4)

\* C15: a record read that finds four bytes other than the record's
\* signature fails with InvalidSignature carrying those four bytes, the
\* stream four bytes past its starting position; a read that finds the
\* signature does not fail with InvalidSignature.
C15_InvalidSignatureCarriesObserved ==
    (last.op = "read" /\ Avail(data, last.start, 4))
        => IF Observed # Signature(last.rec)
           THEN /\ last.kind = "Err"
                /\ last.err = [kind |-> "InvalidSignature", magic |-> Observed]
                /\ pos = last.start + 4
           ELSE last.err.kind # "InvalidSignature"

\* the bytes of a central directory header, written after three other
\* bytes, were read as a local file header
C15_Witness ==
    /\ last.op = "read" /\ last.rec = "LFH" /\ last.start = 3
    /\ Observed = CDH_SIGNATURE /\ Len(data) > 49
    /\ last.err = [kind |-> "InvalidSignature", magic |-> CDH_SIGNATURE]
    /\ pos = 7

\* the reader of record type rec was given a stream that holds, at its
\* position, the signature of the record and size more bytes than the
\* fixed part
Complete(rec, fixed, size) ==
    /\ last.op = "read" /\ last.rec = rec /\ Observed = Signature(rec)
    /\ Avail(data, last.start, fixed)
    /\ Avail(data, last.start, fixed + size)

\* bit 0x800 of the flag field at offset off of the record last read
Utf8Bit(off) == BitAnd(LengthField(off), 2048) # 0

\* what the read of a record with the text fields bs under the flag bit
\* is to give: NonUTF8Field when the bit is set and one of them is not
\* UTF-8, and otherwise no such error and, read, the variants vs
Decoded(bit, bs, vs) ==
    IF bit /\ \E i \in 1..Len(bs) : ~IsUtf8(bs[i])
    THEN last.kind = "Err" /\ last.err = ZipError("NonUTF8Field")
    ELSE /\ last.err.kind # "NonUTF8Field"
         /\ last.kind = "Ok"
              => \A i \in 1..Len(bs) :
                     vs[i] = IF bit THEN from_str(bs[i]) ELSE from_bytes(bs[i])

\* C16: the name of a record, and the comment of a Central Directory
\* Header, is decoded by bit 0x800 of the record's flags alone: the bytes
\* variant when the bit is clear, even for valid UTF-8; with the bit set
\* the text variant for valid UTF-8 and a NonUTF8Field failure otherwise.
C16_DecodingFollowsTheFlag ==
    /\ Complete("LFH", 30, LengthField(26) + LengthField(28))
           => Decoded(Utf8Bit(6),
                      << Take(data, last.start + 30, LengthField(26)) >>,
                      << last.h.file_name >>)
    /\ Complete("CDH", 46, LengthField(28) + LengthField(30) + LengthField(32))
           => Decoded(Utf8Bit(8),
                      << Take(data, last.start + 46, LengthField(28)),
                         Take(data, last.start + 46 + LengthField(28) + LengthField(30),
                              LengthField(32)) >>,
                      << last.h.file_name, last.h.file_comment >>)

\* a central directory header with bit 0x800 set, a UTF-8 name and a
\* comment that is not UTF-8 was read
C16_Witness ==
    /\ Complete("CDH", 46, 3) /\ Utf8Bit(8)
    /\ Take(data, last.start + 46, 2) = << 195, 169 >>
    /\ LengthField(30) = 0
    /\ Take(data, last.start + 48, 1) = << 255 >>
    /\ last.err = ZipError("NonUTF8Field")

\* a local file header with bit 0x800 clear and a UTF-8 name was read
C16_BytesWitness ==
    /\ Complete("LFH", 30, 2) /\ ~Utf8Bit(6)
    /\ last.kind = "Ok" /\ last.h.file_name = from_bytes(<< 195, 169 >>)

\* ------------------------------------------- claims on unsupported entries
\* the last operation extracted, in full or in part, an entry of the
\* archive
Extracted == last.op \in { "read", "read_first" } /\ EntryAt(last.f) # {}

\* C17: an entry whose Local File Header has one of the flags 0x1, 0x8,
\* 0x20, 0x40 and 0x2000 set is rejected: LocalFileHeader::read returns no
\* header for it, and no extraction, full or partial, returns content or
\* writes any to the sink.
C17_FlaggedEntriesAreRejected ==
    (Extracted /\ Unsupported(LFHOf(LastEntry)))
        => /\ LocalFileHeader_read(data, last.f.local_file_header_offset).kind # "Ok"
           /\ last.kind # "Ok"
           /\ last.bytes = << >>
           /\ last.sink = << >>

\* the first bytes of an entry whose local header alone has the masking
\* flag were asked for, and the reader aborted
C17_Witness ==
    /\ Extracted /\ last.op = "read_first" /\ last.n = 2
    /\ LastEntry.lflag = 8192 /\ LastEntry.flag = 0
    /\ last.kind = "Panic" /\ phase = "aborted"

\* what an extraction of the first n raw bytes of entry e is to give by
\* the method code of its local header
Transformed(e, n) ==
    IF e.lmethod = 0
    THEN /\ last.kind # "Panic"
         /\ last.kind = "Ok"
              => last.bytes = Take(e.raw, 0, n) /\ last.sink = last.bytes
         /\ last.kind = "Err" => last.err.kind # "DecompressionFailure"
    ELSE IF e.lmethod = 8
    THEN /\ last.kind = "Ok"
              => /\ IsPrefix(last.bytes, Inflated(Take(e.raw, 0, n)))
                 /\ last.sink = last.bytes
         /\ last.kind = "Err"
              => last.err.kind \in { "DecompressionFailure", "CrcError" }
    ELSE last.kind = "Panic" /\ last.bytes = << >> /\ last.sink = << >>

\* C18: extraction goes by the method code of the Local File Header: code
\* 0 gives the raw bytes, code 8 what inflating them gives, and any other
\* code is fatal, with no content returned and nothing written.
C18_LocalMethodDecides ==
    (Extracted /\ ~Unsupported(LFHOf(LastEntry)))
        => Transformed(LastEntry,
                       IF last.op = "read" THEN Len(LastEntry.raw)
                       ELSE Min(last.n, Len(LastEntry.raw)))

\* an entry the central directory calls stored and the local header
\* gives a method 12 was extracted, and the reader aborted
C18_Witness ==
    /\ Extracted /\ last.op = "read"
    /\ last.f.compression_method = "Store" /\ LastEntry.lmethod = 12
    /\ last.kind = "Panic" /\ phase = "aborted"

\* an entry the central directory calls stored and the local header calls
\* deflated was extracted and came out inflated
C18_DeflateWitness ==
    /\ Extracted /\ last.op = "read"
    /\ last.f.compression_method = "Store" /\ LastEntry.lmethod = 8
    /\ last.kind = "Ok" /\ last.bytes = LastEntry.content /\ last.bytes # LastEntry.raw

\* the descriptor method of a method code
MethodOf(code) ==
    IF code = 0 THEN "Store" ELSE IF code = 8 THEN "Deflate" ELSE "Unknown"

\* C19: a step of an iteration over a valid archive, its comment free of
\* the end record's signature, yields the descriptor of the next central
\* directory header with method Store for code 0, Deflate for code 8 and
\* Unknown for every other code, or reports the end of the sequence.
C19_OtherMethodsAreUnknown ==
    (/\ arch.valid /\ NoMagic(arch.comment)
     /\ it.kind \in { "raw", "files" } /\ last.op = "next")
        => /\ last.kind \in { "Ok", "None" }
           /\ last.kind = "Ok"
                => last.info.compression_method
                       = MethodOf(arch.entries[itg.yielded].method)

\* the archive is damaged: its end record declares one entry more than
\* its central directory holds, so that the walk of the directory meets
\* the end record's signature where it reads the last header
Overstated ==
    /\ phase # "start" /\ ~arch.valid
    /\ end_record.total_entry_count = Len(arch.entries) + 1

\* C20: a failure of the taxonomy reaches the caller as an error value:
\* info(name) on a directory whose walk meets a header that fails to parse
\* before any entry of that name returns that failure as Err.
C20_InfoReturnsParseErrors ==
    (/\ last.op = "info" /\ Overstated /\ Named(last.name) = {}
     /\ \A i \in 1..Len(arch.entries) : arch.entries[i].method \in { 0, 8 })
        => /\ last.kind = "Err"
           /\ last.err = [kind |-> "InvalidSignature", magic |-> EOCDR_SIGNATURE]

\* ------------------------------------------------- claims on the reader
\* the 16-bit field at offset off of the record that ends the source
EndField(off) == U16(Take(data, Len(data) - 22 + off, 2))

\* the source ends in an end record without comment that declares a
\* multi-disk layout or the ZIP64 sentinel counts
DeclaresUnsupported ==
    /\ Len(data) >= 22
    /\ Take(data, Len(data) - 22, 4) = EOCDR_SIGNATURE
    /\ EndField(20) = 0
    /\ \/ EndField(4) # 0
       \/ EndField(6) # 0
       \/ EndField(8) # EndField(10)
       \/ EndField(8) = 65535
       \/ EndField(10) = 65535

\* C21: an archive whose end record declares a multi-disk layout or ZIP64
\* sentinel values is never opened, and so never iterated, as an ordinary
\* single-disk archive.
C21_UnsupportedKindsAreRejected ==
    DeclaresUnsupported => phase # "open" /\ held = {}

\* ------------------------------------------------- claims on timestamps
\* C22: to_tuple of MsdosDateTime::new(y, mo, d, h, mi, s) is (y, mo, d, h,
\* mi, s - s mod 2) for years 1980..2107, months 0..15, days 0..31, hours
\* 0..31, minutes 0..63 and seconds 0..63; and write of a value read from
\* a stream emits the two 16-bit words that were read.
C22_DateTimeIsLossless ==
    /\ last.op \in { "new", "new-write" }
           => last.tuple = << arch.year, arch.month, arch.day, arch.hour, arch.minute,
                              arch.second - (arch.second % 2) >>
    /\ last.op = "read-write" => last.out = data

\* 2107-15-31 31:63:63 was packed and unpacked
C22_Witness ==
    /\ last.op = "new" /\ arch.year = 2107 /\ arch.month = 15 /\ arch.day = 31
    /\ arch.hour = 31 /\ arch.minute = 63 /\ arch.second = 63
    /\ last.tuple[6] = 62

\* the words 0x8000 and 0xFFFF were read and written back
C22_WordsWitness ==
    /\ last.op = "read-write" /\ data = << 0, 128, 255, 255 >> /\ last.out = data

\* ------------------------------------------------ claims on the iteration
\* The k-th step of an iteration of the live kind begun afresh on a reader
\* whose stream stands at offset 0: StepsFrom takes k steps from cursor c
\* and position cur, StepsAfter is what follows the step that gave r.
RECURSIVE StepsFrom(_, _, _)
StepsAfter(k, r) == IF k <= 1 THEN r ELSE StepsFrom(k - 1, r.c, r.pos)

StepsFrom(k, c, cur) ==
    StepsAfter(k, IF it.kind = "raw" THEN RawFiles_next(data, end_record, c, cur)
                  ELSE Files_next(data, end_record, c, cur))

\* the steps the live iteration has taken, an aborted one included
StepsTaken ==
    itg.yielded + itg.errs + itg.nones + (IF itg.item = "Panic" THEN 1 ELSE 0)

C24_EndRecordIsFixed ==
    [][/\ phase # "start" => (end_record' = end_record /\ data' = data)
       /\ (it.kind = "none" /\ it'.kind # "none")
              => it'.c = [current_entry |-> 0,
                          current_offset |-> end_record.central_directory_offset]]_vars

\* a fresh iteration was begun, at a central directory past offset 0,
\* after a lookup, a failed extraction and an earlier iteration
C24_Witness ==
    /\ it.kind # "none" /\ itg.item = "none" /\ it.c.current_entry = 0
    /\ it.c.current_offset = end_record.central_directory_offset
    /\ end_record.central_directory_offset > 0
    /\ Cardinality(held) >= 2
    /\ \E a \in reads : a.kind = "Err"

\* --------------------------------------------- claims on the extraction
\* C25: full extraction of a Store or Deflate entry whose headers declare
\* the CRC-32 0 and whose content has another CRC-32 fails with CrcError.
C25_ZeroCrcIsVerified ==
    (/\ Extracted /\ last.op = "read" /\ ~Unsupported(LFHOf(LastEntry))
     /\ LastEntry.lmethod \in { 0, 8 } /\ LastEntry.lmethod = LastEntry.method
     /\ LastEntry.crc = << 0, 0, 0, 0 >> /\ crc32(LastEntry.content) # << 0, 0, 0, 0 >>)
        => /\ last.kind = "Err" /\ last.err.kind = "CrcError"
           /\ last.bytes = << >>

\* the field of n bytes at offset off of the local file header the last
\* extraction was sent to
LocalField(off, n) == Take(data, last.f.local_file_header_offset + off, n)

\* where the data region of that header starts
LocalData ==
    last.f.local_file_header_offset + 30 + U16(LocalField(26, 2)) + U16(LocalField(28, 2))

\* C26: an extraction takes from the FileInfo the offset of the Local File
\* Header and nothing else.  A stored entry comes out as the bytes that
\* follow the local header, its own name and its own extra field, as many
\* as the local header's compressed size (or the first n of them); and
\* full extractions with FileInfo values of one offset have one result.
C26_OnlyTheOffsetIsUsed ==
    /\ (/\ last.op \in { "read", "read_first" } /\ last.kind = "Ok"
        /\ LocalField(0, 4) = LFH_SIGNATURE /\ U16(LocalField(8, 2)) = 0)
           => last.bytes = Take(data, LocalData,
                                IF last.op = "read" THEN U32(LocalField(18, 4))
                                ELSE Min(last.n, U32(LocalField(18, 4))))
    /\ \A a, b \in reads :
           a.f.local_file_header_offset = b.f.local_file_header_offset
               => (a.kind = b.kind /\ a.err = b.err /\ a.bytes = b.bytes)

\* two FileInfo values of one offset that differ in name, method, CRC and
\* sizes were extracted in full, with content
C26_Witness ==
    \E a, b \in reads :
        /\ a.f.local_file_header_offset = b.f.local_file_header_offset
        /\ a.f.name # b.f.name /\ a.f.compression_method # b.f.compression_method
        /\ a.f.crc32 # b.f.crc32 /\ a.f.compressed_size # b.f.compressed_size
        /\ a.f.uncompressed_size # b.f.uncompressed_size
        /\ a.kind = "Ok" /\ a.bytes # << >>

\* ------------------------------------------- claims on the construction
\* the offset of the EOCDR signature closest to the end of the source
LastMagic ==
    CHOOSE p \in 0..(Len(data) - 4) :
        /\ Take(data, p, 4) = EOCDR_SIGNATURE
        /\ \A q \in (p + 1)..(Len(data) - 4) : Take(data, q, 4) # EOCDR_SIGNATURE

\* no complete end record follows offset p: fewer than 18 bytes remain
\* after the signature, or fewer than the comment it declares
Incomplete(p) ==
    \/ Len(data) - p < 22
    \/ Len(data) - p < 22 + U16(Take(data, p + 20, 2))

\* C27: when the signature closest to the end of the source is not
\* followed by a complete end record, ZipReader::new fails with an I/O
\* error, having scanned from the end down to that signature and no
\* further.
C27_IncompleteRecordIsIoError ==
    (phase # "start" /\ ~NoMagic(data) /\ Incomplete(LastMagic))
        => /\ phase = "failed"
           /\ last.op = "new" /\ last.kind = "Err"
           /\ last.err = ZipError("IoError")
           /\ scanned = [k \in 1..(Len(data) - 3 - LastMagic) |-> Len(data) - 3 - k]

\* an archive whose comment is the signature, with its own complete end
\* record before it, was refused with an I/O error
C27_Witness ==
    /\ arch.valid /\ arch.comment = EOCDR_SIGNATURE /\ phase = "failed"
    /\ LastMagic = Len(data) - 4
    /\ last.err = ZipError("IoError")

\* a source that ends inside the comment its end record declares was
\* refused with an I/O error
C27_ShortCommentWitness ==
    /\ phase = "failed" /\ Len(data) - LastMagic = 23
    /\ U16(Take(data, LastMagic + 20, 2)) = 2
    /\ last.err = ZipError("IoError")

\* ------------------------------------------------- claims on the sink
\* the errors that read and read_first can return before the write
BeforeTheWrite ==
    { ZipError("IoError"), ZipError("DecompressionFailure"), ZipError("CrcError") }
        \cup { e \in { last.err } : e.kind = "InvalidSignature" }

\* C28: after extract_file or extract_first, the sink holds nothing when
\* the call returned an error (or panicked), and holds exactly the bytes
\* that read / read_first returned, once, when it succeeded.
C28_SinkGetsAllOrNothing ==
    last.op \in { "read", "read_first" }
        => /\ last.kind = "Err" => (last.sink = << >> /\ last.err \in BeforeTheWrite)
           /\ last.kind = "Panic" => last.sink = << >>
           /\ last.kind = "Ok" => last.sink = last.bytes

\* a full extraction wrote its bytes, a partial one wrote a proper prefix
C28_Witness ==
    /\ last.op = "read_first" /\ last.kind = "Ok"
    /\ last.sink # << >> /\ last.sink = last.bytes
    /\ \E a \in reads : a.f = last.f /\ a.kind = "Ok" /\ Len(a.bytes) > Len(last.sink)

\* an extraction that failed its CRC check wrote nothing
C28_ErrorWitness ==
    /\ last.op = "read" /\ last.kind = "Err" /\ last.err = ZipError("CrcError")
    /\ last.sink = << >>

\* ------------------------------------------------ claims on the cursor
\* the offset after k central directory headers that start at offset off,
\* by the three length fields of each header in the source
RECURSIVE OffsetAfter(_, _)
OffsetAfter(k, off) ==
    IF k = 0 THEN off
    ELSE OffsetAfter(k - 1, off + 46 + U16(Take(data, off + 28, 2))
                                     + U16(Take(data, off + 30, 2))
                                     + U16(Take(data, off + 32, 2)))

\* the cursor of a live iterator counts the headers yielded and stands
\* after them
CursorInvariant ==
    it.kind # "none"
        => /\ 0 <= it.c.current_entry
           /\ it.c.current_entry <= end_record.total_entry_count
           /\ it.c.current_entry = itg.yielded
           /\ it.c.current_offset
                  = OffsetAfter(itg.yielded, end_record.central_directory_offset)

\* one call of next(): an item moves the cursor by one entry and at least
\* 46 bytes, anything else leaves it where it was
CursorStep ==
    (it.kind # "none" /\ it'.kind # "none" /\ itg' # itg)
        => /\ last'.op = "next"
           /\ last'.kind = "Ok"
                  => /\ it'.c.current_entry = it.c.current_entry + 1
                     /\ it'.c.current_offset >= it.c.current_offset + 46
           /\ last'.kind # "Ok" => it'.c = it.c

\* C29: in every reachable state of a RawFiles iterator current_entry is
\* between 0 and total_entry_count and current_offset is
\* central_directory_offset plus the total sizes of the headers yielded so
\* far; a successful step adds 1 to current_entry and at least 46 to
\* current_offset, and a step that yields an error changes neither.
C29_CursorInvariant == []CursorInvariant /\ [][CursorStep]_vars

\* two headers with names and comments were yielded and the cursor stands
\* after both
C29_Witness ==
    /\ it.kind = "raw" /\ itg.yielded = 2 /\ it.c.current_entry = 2
    /\ it.c.current_offset > end_record.central_directory_offset + 92
    /\ it.c.current_offset = Len(data) - 22 - Len(arch.comment)

\* after one header the iterator yielded an error, twice, and the cursor
\* still stands after that header
C29_ErrorWitness ==
    /\ it.kind = "raw" /\ itg.yielded = 1 /\ itg.errs = 2 /\ last.kind = "Err"
    /\ it.c = [current_entry |-> 1,
               current_offset |-> OffsetAfter(1, end_record.central_directory_offset)]

====
